-------------------------- MODULE ParQuickSortProofs -------------------------
(***************************************************************************)
(* Proofs about ParQuickSort: for every team of threads, every threshold,  *)
(* every set of array lengths and every set of words, the three-way        *)
(* partition splits its range, the invariant IInv holds, and with it the   *)
(* absence of data races, the place of the words equal to a pivot, that a  *)
(* task which has ended is never disturbed, and the refinement of Sorting. *)
(***************************************************************************)
EXTENDS ParQuickSort, OmpTasksProofs, FiniteSetTheorems

(***************************************************************************)
(* Counting what comes before gives every member of a range a place of its *)
(* own.  B[q] are the members that come before q.                          *)
(***************************************************************************)
LEMMA RanksAreABijection ==
  ASSUME NEW lo \in Int, NEW hi \in Int, lo <= hi,
         NEW B \in [lo .. hi -> SUBSET (lo .. hi)],
         \A q \in lo .. hi : q \notin B[q],
         \A p, q \in lo .. hi : p # q =>
           \/ p \in B[q] /\ B[p] \subseteq B[q]
           \/ q \in B[p] /\ B[q] \subseteq B[p],
         NEW place, place = [q \in lo .. hi |-> lo + Cardinality(B[q])]
  PROVE  place \in Bijection(lo .. hi, lo .. hi)
<1> DEFINE R == lo .. hi
<1>1. IsFiniteSet(R) /\ Cardinality(R) = hi - lo + 1
  BY FS_Interval
<1>2. \A q \in R : B[q] \in SUBSET R /\ q \notin B[q]
  OBVIOUS
<1>3. \A p, q \in R : p # q => \/ p \in B[q] /\ B[p] \subseteq B[q]
                               \/ q \in B[p] /\ B[q] \subseteq B[p]
  OBVIOUS
<1>4. \A q \in R : place[q] = lo + Cardinality(B[q])
  OBVIOUS
<1> HIDE DEF R
<1>5. \A q \in R : /\ IsFiniteSet(B[q]) /\ Cardinality(B[q]) \in Nat
                   /\ Cardinality(B[q]) < Cardinality(R)
  <2>1. TAKE q \in R
  <2>2. IsFiniteSet(B[q]) /\ Cardinality(B[q]) <= Cardinality(R) /\ B[q] # R
    BY <1>1, <1>2, FS_Subset
  <2>3. Cardinality(B[q]) # Cardinality(R)
    BY <1>1, <1>2, <2>2, FS_Subset
  <2>4. Cardinality(B[q]) \in Nat /\ Cardinality(R) \in Int
    BY <1>1, <2>2, FS_CardinalityType
  <2>5. QED
    BY <2>2, <2>3, <2>4
<1>6. place \in [R -> R]
  <2>1. \A q \in R : place[q] \in R
    BY SMTT(30), <1>1, <1>4, <1>5 DEF R
  <2>2. place = [q \in R |-> place[q]]
    BY DEF R
  <2>3. QED
    BY <2>1, <2>2
<1>7. ASSUME NEW p \in R, NEW q \in R, p \in B[q], B[p] \subseteq B[q]
      PROVE  Cardinality(B[p]) < Cardinality(B[q])
  <2>1. B[p] \in SUBSET B[q] /\ B[p] # B[q]
    BY <1>2, <1>7
  <2>2. Cardinality(B[p]) <= Cardinality(B[q]) /\ Cardinality(B[q]) # Cardinality(B[p])
    BY <1>5, <2>1, FS_Subset
  <2>3. QED
    BY <1>5, <2>2
<1>8. \A p, q \in R : p # q => place[p] # place[q]
  <2>1. TAKE p, q \in R
  <2>2. HAVE p # q
  <2>3. Cardinality(B[p]) < Cardinality(B[q]) \/ Cardinality(B[q]) < Cardinality(B[p])
    BY <1>3, <1>7, <2>2
  <2>4. QED
    BY <1>4, <1>5, <2>3
<1>9. place \in Injection(R, R)
  <2>1. DOMAIN place = R
    BY <1>6
  <2>2. IsInjective(place)
    <3>1. \A p, q \in R : place[p] = place[q] => p = q
      BY <1>8
    <3>2. QED
      BY <2>1, <3>1, Zenon DEF IsInjective
  <2>3. QED
    BY <1>6, <2>2 DEF Injection
<1>10. place \in Surjection(R, R)
  BY <1>1, <1>9, FS_Injection
<1>11. QED
  BY <1>9, <1>10 DEF Bijection, R

\* The pivot is a word of the range.
LEMMA PivotInRange ==
  ASSUME NEW a, NEW left \in Int, NEW right \in Int, left < right
  PROVE  \E x \in left .. (right - 1) : par_pivot_select(text, a, left, right) = a[x]
<1>1. /\ left \in left .. (right - 1) /\ right - 1 \in left .. (right - 1)
      /\ left + ((right - left) \div 2) \in left .. (right - 1)
  OBVIOUS
<1>2. par_pivot_select(text, a, left, right) \in
        {a[left], a[left + ((right - left) \div 2)], a[right - 1]}
  BY DEF par_pivot_select
<1>3. QED
  BY <1>1, <1>2

\* The three-way partition rearranges its range into the smaller, the equal and the
\* larger words.
SplitAt(b, left, m1, m2, right, value) ==
  /\ m1 \in Int /\ m2 \in Int /\ left <= m1 /\ m1 < m2 /\ m2 <= right
  /\ \A p \in left .. (m1 - 1) : text[b[p]] < value
  /\ \A p \in m1 .. (m2 - 1) : text[b[p]] = value
  /\ \A p \in m2 .. (right - 1) : text[b[p]] > value

LEMMA SplitFacts ==
  ASSUME count \in Nat, TextIsInt, NEW a \in [Positions -> Positions],
         NEW left \in Int, NEW right \in Int, 0 <= left, left < right, right <= count,
         NEW pivot, pivot = par_pivot_select(text, a, left, right),
         NEW s, s = Split(text, a, left, right, pivot)
  PROVE  /\ Rearranged(a, s.array, left, right - 1)
         /\ SplitAt(s.array, left, s.m1, s.m2, right, text[pivot])
<1> DEFINE R        == left .. (right - 1)
           class(q) == ClassOf(text, a[q], pivot)
           Precedes(r, q) ==
             IF class(r) = class(q) THEN r < q ELSE class(r) = "L" \/ class(q) = "G"
           B        == [q \in R |-> {r \in R : Precedes(r, q)}]
           place    == [q \in R |-> left + Cardinality(B[q])]
           Place(q) == left + Cardinality({r \in R : Precedes(r, q)})
           Ls       == {q \in R : class(q) = "L"}
           LEs      == {q \in R : class(q) # "G"}
<1>1. /\ s.array = [p \in Positions |-> IF p \in R THEN a[CHOOSE q \in R : Place(q) = p] ELSE a[p]]
      /\ s.m1 = left + Cardinality(Ls) /\ s.m2 = left + Cardinality(LEs)
  <2>1. DOMAIN a = Positions
    OBVIOUS
  <2>2. s.array = [p \in Positions |-> IF p \in R THEN a[CHOOSE q \in R : Place(q) = p] ELSE a[p]]
    BY <2>1 DEF Split
  <2>3. s.m1 = left + Cardinality(Ls)
    BY DEF Split
  <2>4. s.m2 = left + Cardinality(LEs)
    BY DEF Split
  <2>5. QED
    BY <2>2, <2>3, <2>4
<1>2. R \subseteq Positions /\ \A q \in R : q \in Int
  BY DEF Positions
<1>3. PICK x \in R : pivot = a[x]
  BY PivotInRange
<1>4. \A q \in R : a[q] \in Positions /\ text[a[q]] \in Int
  BY <1>2 DEF TextIsInt
<1>5. text[pivot] \in Int
  BY <1>3, <1>4
<1>6. \A q \in R : /\ class(q) = "L" <=> text[a[q]] < text[pivot]
                   /\ class(q) = "E" <=> text[a[q]] = text[pivot]
                   /\ class(q) = "G" <=> text[a[q]] > text[pivot]
                   /\ class(q) \in {"L", "E", "G"}
  BY <1>4, <1>5 DEF ClassOf
<1>7. class(x) = "E"
  BY <1>3, <1>6
<1> HIDE DEF class
<1>8. /\ \A q \in R : ~Precedes(q, q)
      /\ \A p, q \in R : p # q => Precedes(p, q) \/ Precedes(q, p)
      /\ \A p, q, r \in R : Precedes(r, p) /\ Precedes(p, q) => Precedes(r, q)
  BY <1>2, <1>6
<1>9. /\ \A q \in R : class(q) = "L" => \A r \in R : Precedes(r, q) => class(r) = "L" /\ r # q
      /\ \A q \in R : class(q) # "L" => \A r \in R : class(r) = "L" => Precedes(r, q)
      /\ \A q \in R : class(q) # "G" => \A r \in R : Precedes(r, q) => class(r) # "G" /\ r # q
      /\ \A q \in R : class(q) = "G" => \A r \in R : class(r) # "G" => Precedes(r, q)
  BY <1>2, <1>6
<1> HIDE DEF Precedes
<1>10. \A q \in R : B[q] = {r \in R : Precedes(r, q)}
  OBVIOUS
<1>11. B \in [R -> SUBSET R]
  OBVIOUS
<1>12. \A q \in R : place[q] = left + Cardinality(B[q]) /\ Place(q) = place[q]
  OBVIOUS
<1>13. place = [q \in R |-> left + Cardinality(B[q])]
  OBVIOUS
<1> HIDE DEF B, place, Place
<1>14. place \in Bijection(R, R)
  <2>1. \A q \in R : q \notin B[q]
    BY <1>8, <1>10
  <2>2. \A p, q \in R : p # q => \/ p \in B[q] /\ B[p] \subseteq B[q]
                                 \/ q \in B[p] /\ B[q] \subseteq B[p]
    BY <1>8, <1>10
  <2> DEFINE hi == right - 1
  <2>3. hi \in Int /\ left <= hi /\ R = left .. hi
    OBVIOUS
  <2> HIDE DEF hi, R
  <2>4. QED
    BY <1>11, <1>13, <2>1, <2>2, <2>3, RanksAreABijection
<1>15. /\ \A q \in R : place[q] \in R
       /\ \A p, q \in R : place[p] = place[q] => p = q
       /\ \A p \in R : \E q \in R : place[q] = p
  BY <1>14 DEF Bijection, Injection, Surjection, IsInjective
<1>16. \A q \in R : s.array[place[q]] = a[q]
  <2>1. TAKE q \in R
  <2>2. (CHOOSE y \in R : Place(y) = place[q]) = q
    BY <1>12, <1>15
  <2>3. place[q] \in R /\ place[q] \in Positions
    BY <1>2, <1>15
  <2>4. s.array[place[q]] = a[CHOOSE y \in R : Place(y) = place[q]]
    BY <1>1, <2>3, Zenon
  <2>5. QED
    BY <2>2, <2>4, Zenon
<1>17. Rearranged(a, s.array, left, right - 1)
  <2>1. \A p \in R : \E q \in R : s.array[p] = a[q]
    BY <1>15, <1>16
  <2>2. \A p \in Positions : p \notin R => s.array[p] = a[p]
    BY <1>1
  <2>3. s.array \in [Positions -> Positions]
    <3>1. \A p \in Positions : s.array[p] \in Positions
      BY <1>4, <2>1, <2>2
    <3>2. DOMAIN s.array = Positions /\ s.array = [p \in DOMAIN s.array |-> s.array[p]]
      BY <1>1
    <3>3. QED
      BY <3>1, <3>2
  <2>4. ASSUME Kept(a) PROVE Kept(s.array)
    <3>1. SUFFICES ASSUME NEW w \in Positions PROVE \E p \in Positions : s.array[p] = w
      BY DEF Kept
    <3>2. PICK q \in Positions : a[q] = w
      BY <2>4 DEF Kept
    <3>3. QED
      BY <1>2, <1>15, <1>16, <2>2, <3>2
  <2>5. QED
    BY <1>2, <2>1, <2>2, <2>3, <2>4 DEF Rearranged
<1>18. IsFiniteSet(R) /\ Cardinality(R) = right - left
  <2> DEFINE hi == right - 1
  <2>1. hi \in Int /\ ~(left > hi) /\ right - left = hi - left + 1
    OBVIOUS
  <2> HIDE DEF hi
  <2>2. IsFiniteSet(left .. hi) /\ Cardinality(left .. hi) = right - left
    BY <2>1, FS_Interval
  <2>3. QED
    BY <2>2 DEF hi
<1>19. \A T \in SUBSET R : IsFiniteSet(T) /\ Cardinality(T) \in Nat /\ Cardinality(T) <= right - left
  BY <1>18, FS_Subset, FS_CardinalityType
<1>20. \A T, U \in SUBSET R : T \subseteq U => Cardinality(T) <= Cardinality(U)
  BY <1>19, FS_Subset
<1>21. \A T, U \in SUBSET R : T \subseteq U /\ T # U => Cardinality(T) < Cardinality(U)
  <2>1. TAKE T, U \in SUBSET R
  <2>2. HAVE T \subseteq U /\ T # U
  <2>3. Cardinality(T) <= Cardinality(U) /\ Cardinality(U) # Cardinality(T)
    BY <1>19, <2>2, FS_Subset
  <2>4. QED
    BY <1>19, <2>3
<1>22. /\ Ls \in SUBSET R /\ LEs \in SUBSET R /\ Ls \subseteq LEs /\ Ls # LEs
       /\ \A q \in R : (q \in Ls <=> class(q) = "L") /\ (q \in LEs <=> class(q) # "G")
  BY <1>7
<1> HIDE DEF Ls, LEs
<1>23. s.m1 \in Int /\ s.m2 \in Int /\ left <= s.m1 /\ s.m1 < s.m2 /\ s.m2 <= right
  BY <1>1, <1>19, <1>21, <1>22
<1>24. ASSUME NEW q \in R
       PROVE  (place[q] < s.m1 <=> class(q) = "L") /\ (place[q] < s.m2 <=> class(q) # "G")
  <2>1. B[q] \in SUBSET R /\ Cardinality(B[q]) \in Nat /\ q \notin B[q]
    BY <1>8, <1>10, <1>19
  <2>2. class(q) = "L" => Cardinality(B[q]) < Cardinality(Ls)
    BY <1>9, <1>10, <1>21, <1>22, <2>1
  <2>3. class(q) # "L" => Cardinality(Ls) <= Cardinality(B[q])
    BY <1>9, <1>10, <1>20, <1>22, <2>1
  <2>4. class(q) # "G" => Cardinality(B[q]) < Cardinality(LEs)
    BY <1>9, <1>10, <1>21, <1>22, <2>1
  <2>5. class(q) = "G" => Cardinality(LEs) <= Cardinality(B[q])
    BY <1>9, <1>10, <1>20, <1>22, <2>1
  <2>6. Cardinality(Ls) \in Nat /\ Cardinality(LEs) \in Nat /\ place[q] = left + Cardinality(B[q])
    BY <1>12, <1>19, <1>22
  <2>7. QED
    BY <1>1, <2>1, <2>2, <2>3, <2>4, <2>5, <2>6
<1>25. \A p \in R : /\ p < s.m1 => text[s.array[p]] < text[pivot]
                    /\ s.m1 <= p /\ p < s.m2 => text[s.array[p]] = text[pivot]
                    /\ s.m2 <= p => text[s.array[p]] > text[pivot]
  <2>1. TAKE p \in R
  <2>2. PICK q \in R : place[q] = p
    BY <1>15
  <2>3. s.array[p] = a[q]
    BY <1>16, <2>2
  <2>4. p \in Int
    BY <1>2
  <2>5. QED
    BY <1>6, <1>23, <1>24, <2>2, <2>3, <2>4
<1>26. SplitAt(s.array, left, s.m1, s.m2, right, text[pivot])
  <2>1. /\ \A p \in left .. (s.m1 - 1) : p \in R /\ p < s.m1
        /\ \A p \in s.m1 .. (s.m2 - 1) : p \in R /\ s.m1 <= p /\ p < s.m2
        /\ \A p \in s.m2 .. (right - 1) : p \in R /\ s.m2 <= p
    BY <1>23
  <2>2. QED
    BY <1>23, <1>25, <2>1 DEF SplitAt
<1>27. QED
  BY <1>17, <1>26

(***************************************************************************)
(* What the invariant says of the data.                                    *)
(***************************************************************************)
LEMMA DataFacts ==
  ASSUME IInv
  PROVE  /\ count \in Nat /\ text \in [Positions -> Word] /\ array \in [Positions -> Positions]
         /\ \A p \in Positions : p \in Int /\ text[p] \in Int /\ text[array[p]] \in Int
         /\ TextIsInt /\ Kept(array)
<1>1. count \in Nat /\ Word \subseteq Int
  BY CountsAssumption, WordAssumption DEF IInv, TypeOK
<1>2. text \in [Positions -> Word] /\ array \in [Positions -> Positions]
  BY DEF IInv, TypeOK
<1>3. \A p \in Positions : p \in Int /\ text[p] \in Int /\ text[array[p]] \in Int
  <2>1. \A p \in Positions : text[p] \in Int /\ array[p] \in Positions
    BY <1>1, <1>2
  <2>2. \A p \in Positions : p \in Int
    BY <1>1 DEF Positions
  <2>3. QED
    BY <2>1, <2>2
<1>4. Kept(array)
  BY DEF IInv, S!NoWordLost, S!Positions, Kept, Positions
<1>5. QED
  BY <1>1, <1>2, <1>3, <1>4 DEF TextIsInt

\* The bounds of a frame.
Bounded(f) ==
  /\ f \in Frame
  /\ f.left \in Int /\ f.right \in Int /\ f.m1 \in Int /\ f.m2 \in Int
  /\ 0 <= f.left /\ f.left <= f.right /\ f.right <= count
  /\ f.left <= f.m1 /\ f.m1 <= f.m2 /\ f.m2 <= f.right

LEMMA FrameFacts ==
  ASSUME IInv, NEW k \in Created
  PROVE  /\ Bounded(task[k]) /\ "at" \in DOMAIN task[k]
         /\ First(task[k]) \in Int /\ task[k].right \in Int
BY DEF IInv, TypeOK, Frame, Bounded, First

LEMMA TypeAgain ==
  ASSUME IInv, UNCHANGED input, array' \in [Positions -> Positions],
         \A k \in Created' : Bounded(task'[k])
  PROVE  TypeOK' /\ Positions' = Positions
<1>1. count' = count /\ text' = text
  BY DEF input
<1>2. Positions' = Positions
  BY <1>1 DEF Positions
<1>3. Frame' = Frame
  BY DEF Frame
<1>4. QED
  BY <1>1, <1>2, <1>3 DEF IInv, TypeOK, Bounded

LEMMA UnfinishedFacts ==
  ASSUME NEW f
  PROVE  /\ f.at = "spawning" =>
              Unfinished(f) /\ First(f) = f.m2 /\ Pending(f) = f.m2 .. (f.right - 1)
         /\ f.at \in {"deferred", "working"} =>
              Unfinished(f) /\ First(f) = f.left /\ Pending(f) = f.left .. (f.right - 1)
         /\ f.at \in {"waiting", "ended"} => ~Unfinished(f) /\ Pending(f) = {}
BY DEF Pending, Unfinished, First

\* EqualsStayBetween says of a task that has partitioned its range what SplitAt does.
Partitioned(f) == f.at \in {"spawning", "waiting"}
StillSplit(b, f) == SplitAt(b, f.left, f.m1, f.m2, f.right, text[b[f.m1]])

LEMMA EqualsAsSplit ==
  ASSUME \A k \in Created : Bounded(task[k])
  PROVE  EqualsStayBetween <=>
           \A k \in Created : Partitioned(task[k]) => StillSplit(array, task[k])
BY DEF EqualsStayBetween, Partitioned, StillSplit, SplitAt, Bounded

(***************************************************************************)
(* A task rewrites its range: the others do not see it.                    *)
(***************************************************************************)
LEMMA RangeRewritten ==
  ASSUME IInv, NEW r \in Created, task[r].at = "working", UNCHANGED input,
         Rearranged(array, array', task[r].left, task[r].right - 1)
  PROVE  /\ array' \in [Positions -> Positions]
         /\ S!NoWordLost'
         /\ \A k \in Created : Partitioned(task[k]) => StillSplit(array', task[k])
         /\ \A k \in Created : task[k].at = "ended" =>
              \A p \in task[k].left .. (task[k].right - 1) : array'[p] = array[p]
         /\ \A p, q \in Positions :
              p < q /\ ~(p \in task[r].left .. (task[r].right - 1)
                         /\ q \in task[r].left .. (task[r].right - 1)) =>
                \/ text[array'[p]] <= text[array'[q]]
                \/ \E k \in Created \ {r} : p \in Pending(task[k]) /\ q \in Pending(task[k])
<1> DEFINE lo == task[r].left
           hi == task[r].right - 1
           K  == Created \ {r}
           P  == [k \in K |-> Pending(task[k])]
<1>1. /\ Bounded(task[r]) /\ lo \in Int /\ hi \in Int /\ task[r].right = hi + 1
      /\ Unfinished(task[r]) /\ First(task[r]) = lo /\ Pending(task[r]) = lo .. hi
  BY FrameFacts, UnfinishedFacts DEF Bounded
<1>2. count' = count /\ text' = text /\ Positions' = Positions
  BY DEF input, Positions
<1>3. array' \in [Positions -> Positions]
  BY DEF Rearranged
<1>4. S!NoWordLost'
  <2>1. Kept(array')
    BY DataFacts DEF Rearranged
  <2>2. QED
    BY <1>2, <2>1 DEF Kept, Positions, S!NoWordLost, S!Positions
<1>5. \A k \in K : \A p \in lo .. hi : p \notin P[k]
  <2>1. TAKE k \in K
  <2>2. First(task[k]) \in Int /\ task[k].right \in Int
    BY FrameFacts
  <2>3. Unfinished(task[k]) => task[k].right <= lo \/ hi + 1 <= First(task[k])
    BY <1>1 DEF IInv, PendingApart, Outside
  <2>4. QED
    BY <1>1, <2>2, <2>3 DEF Pending
<1>6. /\ \A p \in Positions : p \notin lo .. hi => array'[p] = array[p]
      /\ \A p \in Positions : p \in lo .. hi =>
           \E x \in Positions : x \in lo .. hi /\ array'[p] = array[x]
  BY DEF Rearranged
<1>7. ASSUME NEW k \in Created, Partitioned(task[k])
      PROVE  StillSplit(array', task[k])
  <2> DEFINE f == task[k]
  <2>1. /\ Bounded(f) /\ StillSplit(array, f)
    BY <1>7, FrameFacts, EqualsAsSplit DEF IInv
  <2>2. /\ hi + 1 <= f.m1 \/ f.m2 <= lo
        /\ (hi + 1 <= f.left \/ f.right <= lo) \/ (f.left <= lo /\ hi + 1 <= f.right)
    BY <1>1, <1>7 DEF IInv, EqualsPlaced, Outside, Partitioned
  <2>3. /\ f.left \in Int /\ f.right \in Int /\ f.m1 \in Int /\ f.m2 \in Int
        /\ 0 <= f.left /\ f.left <= f.m1 /\ f.m1 < f.m2 /\ f.m2 <= f.right /\ f.right <= count
        /\ count \in Nat
    BY <2>1, DataFacts DEF Bounded, StillSplit, SplitAt
  <2>4. /\ \A p \in f.left .. (f.m1 - 1) : text[array[p]] < text[array[f.m1]]
        /\ \A p \in f.m1 .. (f.m2 - 1) : text[array[p]] = text[array[f.m1]]
        /\ \A p \in f.m2 .. (f.right - 1) : text[array[p]] > text[array[f.m1]]
    BY <2>1 DEF StillSplit, SplitAt
  <2> HIDE DEF f, lo, hi
  <2>5. \A p \in f.left .. (f.right - 1) : p \in Positions
    BY <2>3 DEF Positions
  <2>6. /\ \A p \in f.m1 .. (f.m2 - 1) : array'[p] = array[p]
        /\ array'[f.m1] = array[f.m1]
    <3>1. \A p \in f.m1 .. (f.m2 - 1) : p \in Positions /\ p \notin lo .. hi
      BY <1>1, <2>2, <2>3, <2>5
    <3>2. f.m1 \in f.m1 .. (f.m2 - 1)
      BY <2>3
    <3>3. QED
      BY <1>6, <3>1, <3>2
  <2>7. ASSUME NEW p \in f.left .. (f.m1 - 1) PROVE text[array'[p]] < text[array[f.m1]]
    <3>1. p \in Positions
      BY <2>3, <2>5
    <3>2. CASE p \in lo .. hi
      <4>1. PICK x \in Positions : x \in lo .. hi /\ array'[p] = array[x]
        BY <1>6, <3>1, <3>2
      <4>2. x \in f.left .. (f.m1 - 1)
        BY SMTT(30), <1>1, <2>2, <2>3, <3>2, <4>1
      <4>3. QED
        BY <2>4, <4>1, <4>2
    <3>3. CASE p \notin lo .. hi
      BY <1>6, <2>4, <3>1, <3>3
    <3>4. QED
      BY <3>2, <3>3
  <2>8. ASSUME NEW p \in f.m2 .. (f.right - 1) PROVE text[array'[p]] > text[array[f.m1]]
    <3>1. p \in Positions
      BY <2>3, <2>5
    <3>2. CASE p \in lo .. hi
      <4>1. PICK x \in Positions : x \in lo .. hi /\ array'[p] = array[x]
        BY <1>6, <3>1, <3>2
      <4>2. x \in f.m2 .. (f.right - 1)
        BY SMTT(30), <1>1, <2>2, <2>3, <3>2, <4>1
      <4>3. QED
        BY <2>4, <4>1, <4>2
    <3>3. CASE p \notin lo .. hi
      BY <1>6, <2>4, <3>1, <3>3
    <3>4. QED
      BY <3>2, <3>3
  <2>9. StillSplit(array', f)
    BY <2>3, <2>4, <2>6, <2>7, <2>8 DEF StillSplit, SplitAt
  <2>10. QED
    BY <2>9 DEF f
<1>8. ASSUME NEW k \in Created, task[k].at = "ended",
             NEW p \in task[k].left .. (task[k].right - 1)
      PROVE  array'[p] = array[p]
  <2>1. p \notin lo .. hi
    BY <1>1, <1>8 DEF IInv, EndedApart
  <2>2. p \in Positions
    BY FrameFacts, DataFacts DEF Bounded, Positions
  <2>3. QED
    BY <1>6, <2>1, <2>2
<1>9. phase # "called"
  BY InRegion DEF IInv
<1>10. OrderedOutside(array, lo, hi, K, P)
  BY <1>1, <1>9 DEF IInv, OrderedButPending, OrderedOutside
<1>11. OrderedOutside(array', lo, hi, K, P)
  <2>1. ApartFrom(lo, hi, K, P)
    BY <1>5 DEF ApartFrom
  <2>2. array \in [Positions -> Positions] /\ count \in Nat /\ TextIsInt
    BY DataFacts
  <2>3. Rearranged(array, array', lo, hi)
    OBVIOUS
  <2> HIDE DEF lo, hi, K, P
  <2>4. QED
    BY <1>1, <1>10, <2>1, <2>2, <2>3, OthersStayOrdered
<1>12. QED
  BY <1>3, <1>4, <1>7, <1>8, <1>11 DEF OrderedOutside

(***************************************************************************)
(* The invariant holds initially and every action keeps it.                *)
(***************************************************************************)
LEMMA InitIInv == Init => IInv
<1> SUFFICES ASSUME Init PROVE IInv
  OBVIOUS
<1>1. TeamInv /\ Created = {} /\ phase = "called"
  BY TeamInitially DEF Init, TeamInit
<1>2. count \in Nat /\ text \in [Positions -> Word] /\ array = [p \in Positions |-> p]
  BY CountsAssumption DEF Init, InputInit
<1>3. TypeOK
  BY <1>1, <1>2 DEF Init, InputInit, TypeOK
<1>4. S!NoWordLost
  BY <1>2 DEF S!NoWordLost, S!Positions, Positions
<1>5. PendingApart /\ EqualsPlaced /\ EndedApart /\ PartsHandedOn /\ EqualsStayBetween
  BY <1>1 DEF PendingApart, EqualsPlaced, EndedApart, PartsHandedOn, EqualsStayBetween
<1>6. QED
  BY <1>1, <1>3, <1>4, <1>5 DEF IInv

LEMMA CallKeepsIInv == IInv /\ quicksort_parallel => IInv'
<1> SUFFICES ASSUME IInv, quicksort_parallel PROVE IInv'
  OBVIOUS
<1>1. TeamInv /\ phase = "called" /\ UNCHANGED input /\ array' = array
  BY DEF quicksort_parallel, IInv, input
<1>2. count' = count /\ text' = text /\ Positions' = Positions
  BY <1>1 DEF input, Positions
<1>3. count \in Nat /\ array' \in [Positions -> Positions]
  BY <1>1, DataFacts
<1>4. S!NoWordLost'
  BY <1>1, <1>2 DEF IInv, S!NoWordLost, S!Positions
<1>5. CASE count <= 1
  <2>1. TeamInv' /\ Created' = {}
    BY <1>1, <1>5, ReturnAtOnce DEF quicksort_parallel
  <2>2. TypeOK'
    BY <1>1, <1>3, <2>1, TypeAgain
  <2>3. PendingApart' /\ EqualsPlaced' /\ EndedApart' /\ PartsHandedOn' /\ EqualsStayBetween'
    BY <2>1 DEF PendingApart, EqualsPlaced, EndedApart, PartsHandedOn, EqualsStayBetween
  <2>4. OrderedButPending'
    BY <1>2, <1>3, <1>5 DEF OrderedButPending, Positions
  <2>5. QED
    BY <1>4, <2>1, <2>2, <2>3, <2>4 DEF IInv
<1>6. CASE count > 1
  <2> DEFINE f == Task(0, count, "working")
  <2>1. Bounded(f) /\ f.at = "working" /\ f.left = 0 /\ f.right = count
    BY <1>3, <1>6 DEF Task, Bounded, Frame, SchedulingPoints
  <2>2. EnterRegion(f)
    BY <1>3, <1>6 DEF quicksort_parallel
  <2> HIDE DEF f
  <2>3. TeamInv' /\ Created' = {1} /\ task'[1] = f
    BY <1>1, <2>1, <2>2, EnterRegionFacts DEF Early
  <2>4. TypeOK'
    BY <1>1, <1>3, <2>1, <2>3, TypeAgain
  <2>5. Pending(f) = 0 .. (count - 1)
    BY <2>1, UnfinishedFacts
  <2>6. PendingApart' /\ EqualsPlaced' /\ EndedApart' /\ PartsHandedOn' /\ EqualsStayBetween'
    BY <2>1, <2>3 DEF PendingApart, EqualsPlaced, EndedApart, PartsHandedOn, EqualsStayBetween
  <2>7. OrderedButPending'
    <3>1. \A p \in Positions : p \in Pending(task'[1])
      BY <2>3, <2>5 DEF Positions
    <3>2. QED
      BY <1>2, <2>3, <3>1 DEF OrderedButPending
  <2>8. QED
    BY <1>4, <2>3, <2>4, <2>6, <2>7 DEF IInv
<1>7. QED
  BY <1>3, <1>5, <1>6

\* PartsHandedOn speaks of tasks that are there, whose bounds never change.
LEMMA PartsAgain ==
  ASSUME IInv, TeamInv', Created \subseteq Created',
         \A k \in Created : /\ task'[k].left = task[k].left /\ task'[k].right = task[k].right,
         NEW k \in Created, task'[k] = task[k]
  PROVE  /\ Partitioned(task'[k]) =>
              task'[2 * k].left = task'[k].left /\ task'[2 * k].right = task'[k].m1
         /\ task'[k].at = "waiting" =>
              task'[2 * k + 1].left = task'[k].m2 /\ task'[2 * k + 1].right = task'[k].right
<1>1. ChildrenOf(k)
  BY DEF IInv, TeamInv
<1>2. /\ Partitioned(task[k]) => 2 * k \in Created
      /\ task[k].at = "waiting" => 2 * k + 1 \in Created
  BY <1>1 DEF ChildrenOf, Partitioned
<1>3. QED
  BY <1>2 DEF IInv, PartsHandedOn, Partitioned

\* A range that is sorted without further tasks.
LEMMA SequentialSorts ==
  ASSUME NEW t \in Threads, IInv, Sequential(t), NEW f, f = task[Running(t)]
  PROVE  /\ Running(t) \in Created /\ f.at = "working" /\ UNCHANGED input
         /\ Rearranged(array, array', f.left, f.right - 1)
         /\ \A p, q \in f.left .. (f.right - 1) : p < q => text[array'[p]] <= text[array'[q]]
<1> DEFINE hi == f.right - 1
<1>1. /\ stack[t] # <<>> /\ f.at = "working" /\ UNCHANGED input
      /\ IF f.right - f.left <= 1 THEN array' = array ELSE array' \in QuickSorted(array, f.left, hi)
  BY DEF Sequential, Runs, input
<1>2. Running(t) \in Created /\ Bounded(f)
  BY <1>1, RunningIsCreated, FrameFacts DEF IInv
<1>3. /\ Rearranged(array, array', f.left, hi)
      /\ \A p, q \in f.left .. hi : p < q => text[array'[p]] <= text[array'[q]]
  <2>1. count \in Nat /\ array \in [Positions -> Positions]
    BY DataFacts
  <2>2. CASE ~(f.right - f.left <= 1)
    <3> DEFINE lo == f.left
    <3>1. lo \in Int /\ hi \in Int /\ 0 <= lo /\ hi < count
      BY <1>2, <2>1 DEF Bounded
    <3>2. array' \in QuickSorted(array, lo, hi)
      BY <1>1, <2>2
    <3> HIDE DEF lo, hi
    <3>3. /\ Rearranged(array, array', lo, hi)
          /\ \A p, q \in lo .. hi : p < q => text[array'[p]] <= text[array'[q]]
      BY <2>1, <3>1, <3>2, QuickSortedFacts
    <3>4. QED
      BY <3>3 DEF lo, hi
  <2>3. CASE f.right - f.left <= 1
    <3>1. array' = array
      BY <1>1, <2>3
    <3>2. Rearranged(array, array', f.left, hi)
      BY <2>1, <3>1, NothingRearranged
    <3>3. \A p, q \in f.left .. hi : ~(p < q)
      BY <1>2, <2>3 DEF Bounded
    <3>4. QED
      BY <3>2, <3>3
  <2>4. QED
    BY <2>2, <2>3
<1>4. QED
  BY <1>1, <1>2, <1>3

LEMMA SequentialKeepsIInv == ASSUME NEW t \in Threads, IInv, Sequential(t) PROVE IInv'
<1> DEFINE r  == Running(t)
           f  == task[r]
           hi == f.right - 1
<1>1. /\ stack[t] # <<>> /\ f.at = "working" /\ EndTask(t) /\ UNCHANGED input
      /\ IF f.right - f.left <= 1 THEN array' = array ELSE array' \in QuickSorted(array, f.left, hi)
  BY DEF Sequential, Runs, input
<1>2. r \in Created /\ TeamInv /\ Bounded(f) /\ "at" \in DOMAIN f /\ Early(f.at)
  BY <1>1, RunningIsCreated, FrameFacts DEF IInv, Early
<1>3. /\ TeamInv' /\ Created' = Created /\ phase' = phase
      /\ task'[r].at = "ended" /\ task'[r] = [f EXCEPT !.at = "ended"]
      /\ \A k \in Created \ {r} : task'[k] = task[k]
  BY <1>1, <1>2, EndTaskFacts
<1>4. /\ Rearranged(array, array', f.left, hi)
      /\ \A p, q \in f.left .. hi : p < q => text[array'[p]] <= text[array'[q]]
  BY SequentialSorts
<1> HIDE DEF r
<1>5. /\ array' \in [Positions -> Positions] /\ S!NoWordLost'
      /\ \A k \in Created : Partitioned(task[k]) => StillSplit(array', task[k])
      /\ \A p, q \in Positions :
           p < q /\ ~(p \in f.left .. hi /\ q \in f.left .. hi) =>
             \/ text[array'[p]] <= text[array'[q]]
             \/ \E k \in Created \ {r} : p \in Pending(task[k]) /\ q \in Pending(task[k])
  BY <1>1, <1>2, <1>4, RangeRewritten
<1>6. /\ task'[r] \in Frame /\ task'[r].left = f.left /\ task'[r].right = f.right
      /\ task'[r].m1 = f.m1 /\ task'[r].m2 = f.m2
  BY <1>2, <1>3 DEF Bounded, Frame, SchedulingPoints
<1>7. Bounded(task'[r])
  BY <1>2, <1>3, <1>6 DEF Bounded
<1>8. TypeOK' /\ Positions' = Positions
  BY <1>1, <1>3, <1>5, <1>7, FrameFacts, TypeAgain
<1>9. /\ ~Unfinished(task'[r]) /\ Pending(task'[r]) = {} /\ ~Partitioned(task'[r])
      /\ Unfinished(f) /\ First(f) = f.left
  BY <1>1, <1>3, UnfinishedFacts DEF Partitioned
<1>10. PendingApart'
  BY <1>3, <1>9 DEF IInv, PendingApart
<1>11. EqualsPlaced'
  BY ZenonT(30), <1>3, <1>9 DEF IInv, EqualsPlaced, Partitioned
<1>12. EndedApart'
  <2>1. SUFFICES ASSUME NEW j \in Created, NEW k \in Created, task'[k].at = "ended"
                 PROVE  Pending(task'[j]) \cap (task'[k].left .. (task'[k].right - 1)) = {}
    BY <1>3 DEF EndedApart
  <2>2. CASE j = r
    BY <1>9, <2>2
  <2>3. CASE j # r /\ k = r
    <3>1. First(task[j]) \in Int /\ task[j].right \in Int
      BY FrameFacts
    <3>2. Unfinished(task[j]) => task[j].right <= f.left \/ f.right <= First(task[j])
      BY <1>2, <1>9, <2>3 DEF IInv, PendingApart, Outside
    <3>3. Pending(task[j]) \cap (f.left .. (f.right - 1)) = {}
      BY <1>2, <3>1, <3>2 DEF Pending, Bounded
    <3>4. QED
      BY <1>3, <1>6, <2>3, <3>3
  <2>4. CASE j # r /\ k # r
    BY <1>3, <2>1, <2>4 DEF IInv, EndedApart
  <2>5. QED
    BY <2>2, <2>3, <2>4
<1>13. PartsHandedOn'
  <2>1. \A k \in Created : task'[k].left = task[k].left /\ task'[k].right = task[k].right
    BY <1>3, <1>6
  <2>2. \A k \in Created \ {r} :
         /\ Partitioned(task'[k]) =>
              task'[2 * k].left = task'[k].left /\ task'[2 * k].right = task'[k].m1
         /\ task'[k].at = "waiting" =>
              task'[2 * k + 1].left = task'[k].m2 /\ task'[2 * k + 1].right = task'[k].right
    BY <1>3, <2>1, PartsAgain
  <2>3. QED
    BY <1>3, <1>9, <2>2 DEF PartsHandedOn, Partitioned
<1>14. text' = text
  BY <1>1 DEF input
<1>15. EqualsStayBetween'
  <2>1. \A k \in Created' : Partitioned(task'[k]) => StillSplit(array', task'[k])
    BY <1>3, <1>5, <1>9
  <2>2. QED
    BY <1>14, <2>1 DEF EqualsStayBetween, Partitioned, StillSplit, SplitAt
<1>16. OrderedButPending'
  <2>1. SUFFICES ASSUME NEW p \in Positions, NEW q \in Positions, p < q
                 PROVE  \/ text[array'[p]] <= text[array'[q]]
                        \/ \E k \in Created' : p \in Pending(task'[k]) /\ q \in Pending(task'[k])
    BY <1>8, <1>14 DEF OrderedButPending
  <2>2. QED
    BY <1>3, <1>4, <1>5, <2>1
<1>17. QED
  BY <1>3, <1>5, <1>8, <1>10, <1>11, <1>12, <1>13, <1>15, <1>16 DEF IInv

\* The partition of a longer range.
LEMMA PartitionSplits ==
  ASSUME NEW t \in Threads, IInv, Partition(t), NEW f, f = task[Running(t)]
  PROVE  /\ Running(t) \in Created /\ f.at = "working" /\ UNCHANGED input
         /\ Rearranged(array, array', f.left, f.right - 1)
         /\ \E pivot, s, g :
              /\ SplitAt(array', f.left, s.m1, s.m2, f.right, text[pivot])
              /\ g = [f EXCEPT !.at = "spawning", !.m1 = s.m1, !.m2 = s.m2]
              /\ CreateFirst(t, FirstPart(g), g)
<1>1. /\ stack[t] # <<>> /\ f.at = "working" /\ UNCHANGED input /\ f.right - f.left > 1
  BY DEF Partition, Runs, input
<1>2. PICK pivot, s, g :
        /\ pivot = par_pivot_select(text, array, f.left, f.right)
        /\ s = Split(text, array, f.left, f.right, pivot)
        /\ g = [f EXCEPT !.at = "spawning", !.m1 = s.m1, !.m2 = s.m2]
        /\ array' = s.array /\ CreateFirst(t, FirstPart(g), g)
  BY DEF Partition
<1>3. Running(t) \in Created /\ Bounded(f)
  BY <1>1, RunningIsCreated, FrameFacts DEF IInv
<1>4. /\ f.left \in Int /\ f.right \in Int /\ 0 <= f.left /\ f.left < f.right /\ f.right <= count
      /\ count \in Nat
  BY <1>1, <1>3, DataFacts DEF Bounded
<1>5. /\ Rearranged(array, array', f.left, f.right - 1)
      /\ SplitAt(array', f.left, s.m1, s.m2, f.right, text[pivot])
  <2> DEFINE left == f.left
             right == f.right
  <2>1. /\ left \in Int /\ right \in Int /\ 0 <= left /\ left < right /\ right <= count
        /\ pivot = par_pivot_select(text, array, left, right)
        /\ s = Split(text, array, left, right, pivot)
    BY <1>2, <1>4
  <2> HIDE DEF left, right
  <2>2. /\ Rearranged(array, s.array, left, right - 1)
        /\ SplitAt(s.array, left, s.m1, s.m2, right, text[pivot])
    BY <1>4, <2>1, DataFacts, SplitFacts
  <2>3. QED
    BY <1>2, <2>2 DEF left, right
<1>6. QED
  BY <1>1, <1>2, <1>3, <1>5

LEMMA PartitionKeepsIInv == ASSUME NEW t \in Threads, IInv, Partition(t) PROVE IInv'
<1> DEFINE r  == Running(t)
           f  == task[r]
           n  == 2 * r
           hi == f.right - 1
<1>1. /\ stack[t] # <<>> /\ f.at = "working" /\ UNCHANGED input /\ f.right - f.left > 1
  BY DEF Partition, Runs, input
<1>2. PICK pivot, s, g :
        /\ SplitAt(array', f.left, s.m1, s.m2, f.right, text[pivot])
        /\ g = [f EXCEPT !.at = "spawning", !.m1 = s.m1, !.m2 = s.m2]
        /\ CreateFirst(t, FirstPart(g), g)
  BY PartitionSplits
<1> DEFINE c == FirstPart(g)
<1>3. r \in Created /\ TeamInv /\ Bounded(f) /\ Early(f.at) /\ f.at # "ended"
  BY <1>1, RunningIsCreated, FrameFacts DEF IInv, Early
<1>4. /\ f.left \in Int /\ f.right \in Int /\ 0 <= f.left /\ f.left < f.right /\ f.right <= count
      /\ count \in Nat
  BY <1>1, <1>3, DataFacts DEF Bounded
<1>5. /\ Rearranged(array, array', f.left, hi)
      /\ SplitAt(array', f.left, s.m1, s.m2, f.right, text[pivot])
  BY <1>2, PartitionSplits
<1>6. /\ g \in Frame /\ g.at = "spawning" /\ g.left = f.left /\ g.right = f.right
      /\ g.m1 = s.m1 /\ g.m2 = s.m2
  <2>1. f \in Frame /\ s.m1 \in Int /\ s.m2 \in Int
    BY <1>3, <1>5 DEF Bounded, SplitAt
  <2> DEFINE x == s.m1
             y == s.m2
  <2>2. g = [f EXCEPT !.at = "spawning", !.m1 = x, !.m2 = y] /\ x \in Int /\ y \in Int
    BY <1>2, <2>1
  <2> HIDE DEF f, x, y
  <2>3. g \in Frame
    BY <2>1, <2>2 DEF Frame, SchedulingPoints
  <2>4. g.at = "spawning" /\ g.left = f.left /\ g.right = f.right /\ g.m1 = x /\ g.m2 = y
    BY <2>1, <2>2 DEF Frame
  <2>5. QED
    BY <2>3, <2>4 DEF x, y
<1>7. /\ g.m1 \in Int /\ g.m2 \in Int /\ f.left <= g.m1 /\ g.m1 < g.m2 /\ g.m2 <= f.right
      /\ \A p \in f.left .. (g.m1 - 1) : text[array'[p]] < text[pivot]
      /\ \A p \in g.m1 .. (g.m2 - 1) : text[array'[p]] = text[pivot]
      /\ \A p \in g.m2 .. hi : text[array'[p]] > text[pivot]
  BY <1>5, <1>6 DEF SplitAt
<1>8. /\ c \in Frame /\ c.at = "deferred" /\ c.left = f.left /\ c.right = g.m1
      /\ c.m1 = c.left /\ c.m2 = c.right
  BY <1>4, <1>6, <1>7 DEF FirstPart, Task, Frame, SchedulingPoints
<1>9. Create(t, n, c, g)
  BY <1>2 DEF CreateFirst
<1> HIDE DEF c
<1>10. Bounded(g) /\ Bounded(c)
  BY <1>4, <1>6, <1>7, <1>8 DEF Bounded
<1>11. /\ TeamInv' /\ Created' = Created \cup {n} /\ n \notin Created /\ phase' = phase
       /\ task'[n] = c /\ task'[r] = g /\ \A j \in Created \ {r} : task'[j] = task[j]
  <2>1. Early(c.at)
    BY <1>8 DEF Early
  <2>2. QED
    BY <1>1, <1>3, <1>6, <1>9, <2>1, CreateFacts
<1> HIDE DEF r, n
<1>12. n = 2 * r
  BY DEF n
<1>13. /\ array' \in [Positions -> Positions] /\ S!NoWordLost'
       /\ \A k \in Created : Partitioned(task[k]) => StillSplit(array', task[k])
       /\ \A p, q \in Positions :
            p < q /\ ~(p \in f.left .. hi /\ q \in f.left .. hi) =>
              \/ text[array'[p]] <= text[array'[q]]
              \/ \E k \in Created \ {r} : p \in Pending(task[k]) /\ q \in Pending(task[k])
  BY <1>1, <1>3, <1>5, RangeRewritten
<1>14. text' = text
  BY <1>1 DEF input
<1>15. TypeOK' /\ Positions' = Positions
  <2>1. \A k \in Created' : Bounded(task'[k])
    BY <1>10, <1>11, FrameFacts
  <2>2. QED
    BY <1>1, <1>13, <2>1, TypeAgain
<1>16. /\ Unfinished(f) /\ First(f) = f.left /\ Pending(f) = f.left .. hi
       /\ Unfinished(g) /\ First(g) = g.m2 /\ Pending(g) = g.m2 .. hi
       /\ Unfinished(c) /\ First(c) = f.left /\ Pending(c) = f.left .. (g.m1 - 1)
  BY <1>1, <1>6, <1>8, UnfinishedFacts
<1>17. \A j \in Created \ {r} : Unfinished(task[j]) =>
         task[j].right <= f.left \/ f.right <= First(task[j])
  BY <1>3, <1>16 DEF IInv, PendingApart, Outside
<1>18. \A j \in Created : First(task[j]) \in Int /\ task[j].right \in Int
  BY FrameFacts
<1>19. \A k \in Created' : k \notin {r, n} => k \in Created \ {r} /\ task'[k] = task[k]
  BY <1>11
<1>20. PendingApart'
  <2>1. SUFFICES ASSUME NEW j \in Created', NEW k \in Created', j # k,
                        Unfinished(task'[j]), Unfinished(task'[k])
                 PROVE  task'[j].right <= First(task'[k]) \/ task'[k].right <= First(task'[j])
    BY DEF PendingApart, Outside
  <2>2. CASE j \in {r, n} /\ k \in {r, n}
    BY <1>4, <1>6, <1>7, <1>8, <1>11, <1>16, <2>1, <2>2
  <2>3. CASE j \in {r, n} /\ k \notin {r, n}
    BY <1>4, <1>6, <1>7, <1>8, <1>11, <1>16, <1>17, <1>18, <1>19, <2>1, <2>3
  <2>4. CASE j \notin {r, n} /\ k \in {r, n}
    BY SMTT(30), <1>4, <1>6, <1>7, <1>8, <1>11, <1>16, <1>17, <1>18, <1>19, <2>1, <2>4
  <2>5. CASE j \notin {r, n} /\ k \notin {r, n}
    BY <1>19, <2>1, <2>5 DEF IInv, PendingApart, Outside
  <2>6. QED
    BY <2>2, <2>3, <2>4, <2>5
<1>21. EqualsPlaced'
  <2>1. SUFFICES ASSUME NEW j \in Created', NEW k \in Created',
                        Unfinished(task'[j]), Partitioned(task'[k])
                 PROVE  /\ task'[j].right <= task'[k].m1 \/ task'[k].m2 <= First(task'[j])
                        /\ \/ task'[j].right <= task'[k].left \/ task'[k].right <= First(task'[j])
                           \/ task'[k].left <= First(task'[j]) /\ task'[j].right <= task'[k].right
    BY DEF EqualsPlaced, Outside, Partitioned
  <2>2. k # n
    BY <1>8, <1>11, <2>1 DEF Partitioned
  <2>3. CASE k = r /\ j \in {r, n}
    BY <1>4, <1>6, <1>7, <1>8, <1>11, <1>16, <2>3
  <2>4. CASE k = r /\ j \notin {r, n}
    BY <1>4, <1>6, <1>7, <1>11, <1>17, <1>18, <1>19, <2>1, <2>4
  <2>5. CASE k # r
    <3>1. k \in Created /\ task'[k] = task[k] /\ Partitioned(task[k]) /\ Bounded(task[k])
      BY <1>19, <2>1, <2>2, <2>5, FrameFacts
    <3>2. \A h \in Created : Unfinished(task[h]) =>
            /\ task[h].right <= task[k].m1 \/ task[k].m2 <= First(task[h])
            /\ \/ task[h].right <= task[k].left \/ task[k].right <= First(task[h])
               \/ task[k].left <= First(task[h]) /\ task[h].right <= task[k].right
      BY <3>1 DEF IInv, EqualsPlaced, Outside, Partitioned
    <3>3. CASE j \notin {r, n}
      BY <1>19, <2>1, <3>1, <3>2, <3>3
    <3>4. CASE j \in {r, n}
      <4>1. /\ f.right <= task[k].m1 \/ task[k].m2 <= f.left
            /\ \/ f.right <= task[k].left \/ task[k].right <= f.left
               \/ task[k].left <= f.left /\ f.right <= task[k].right
        BY <1>3, <1>16, <3>2
      <4>2. /\ f.left <= First(task'[j]) /\ task'[j].right <= f.right
            /\ First(task'[j]) \in Int /\ task'[j].right \in Int
        BY <1>4, <1>6, <1>7, <1>8, <1>11, <1>16, <3>4
      <4>3. /\ task[k].left \in Int /\ task[k].right \in Int /\ task[k].m1 \in Int /\ task[k].m2 \in Int
        BY <3>1 DEF Bounded
      <4>4. QED
        BY <1>4, <3>1, <4>1, <4>2, <4>3
    <3>5. QED
      BY <3>3, <3>4
  <2>6. QED
    BY <2>3, <2>4, <2>5
<1>22. EndedApart'
  <2>1. SUFFICES ASSUME NEW j \in Created', NEW k \in Created', task'[k].at = "ended"
                 PROVE  Pending(task'[j]) \cap (task'[k].left .. (task'[k].right - 1)) = {}
    BY DEF EndedApart
  <2>2. k \in Created /\ task'[k] = task[k]
    BY <1>6, <1>8, <1>11, <1>19, <2>1
  <2>3. \A h \in Created : Pending(task[h]) \cap (task[k].left .. (task[k].right - 1)) = {}
    BY <2>1, <2>2 DEF IInv, EndedApart
  <2>4. CASE j \in {r, n}
    <3>1. Pending(task'[j]) \subseteq Pending(f)
      BY SMTT(30), <1>4, <1>7, <1>11, <1>16, <2>4
    <3>2. QED
      BY <1>3, <2>2, <2>3, <3>1
  <2>5. CASE j \notin {r, n}
    BY <1>19, <2>2, <2>3, <2>5
  <2>6. QED
    BY <2>4, <2>5
<1>23. PartsHandedOn'
  <2>1. \A k \in Created : task'[k].left = task[k].left /\ task'[k].right = task[k].right
    BY <1>6, <1>11
  <2>2. ASSUME NEW k \in Created'
        PROVE  /\ Partitioned(task'[k]) =>
                    task'[2 * k].left = task'[k].left /\ task'[2 * k].right = task'[k].m1
               /\ task'[k].at = "waiting" =>
                    task'[2 * k + 1].left = task'[k].m2 /\ task'[2 * k + 1].right = task'[k].right
    <3>1. CASE k = r
      BY <1>6, <1>8, <1>11, <1>12, <3>1
    <3>2. CASE k = n
      BY <1>8, <1>11, <3>2 DEF Partitioned
    <3>3. CASE k \notin {r, n}
      BY <1>11, <1>19, <2>1, <3>3, PartsAgain
    <3>4. QED
      BY <3>1, <3>2, <3>3
  <2>3. QED
    BY <2>2 DEF PartsHandedOn, Partitioned
<1>24. EqualsStayBetween'
  <2>1. StillSplit(array', g)
    <3>1. text[array'[g.m1]] = text[pivot]
      BY <1>7
    <3>2. QED
      BY <1>5, <1>6, <3>1 DEF StillSplit
  <2>2. \A k \in Created' : Partitioned(task'[k]) => StillSplit(array', task'[k])
    BY <1>8, <1>11, <1>13, <1>19, <2>1 DEF Partitioned
  <2>3. QED
    BY <1>14, <2>2 DEF EqualsStayBetween, Partitioned, StillSplit, SplitAt
<1>25. OrderedButPending'
  <2>1. SUFFICES ASSUME NEW p \in Positions, NEW q \in Positions, p < q
                 PROVE  \/ text[array'[p]] <= text[array'[q]]
                        \/ \E k \in Created' : p \in Pending(task'[k]) /\ q \in Pending(task'[k])
    BY <1>14, <1>15 DEF OrderedButPending
  <2>2. CASE ~(p \in f.left .. hi /\ q \in f.left .. hi)
    <3>1. \A k \in Created \ {r} : k \in Created' /\ task'[k] = task[k]
      BY <1>11
    <3>2. QED
      BY <1>13, <2>1, <2>2, <3>1
  <2>3. CASE p \in f.left .. hi /\ q \in f.left .. hi
    <3>1. r \in Created' /\ n \in Created' /\ p \in Int /\ q \in Int
      BY <1>3, <1>11, DataFacts
    <3>2. CASE q < g.m1
      BY <1>4, <1>7, <1>11, <1>16, <2>1, <2>3, <3>1, <3>2
    <3>3. CASE g.m2 <= p
      BY SMTT(30), <1>4, <1>7, <1>11, <1>16, <2>1, <2>3, <3>1, <3>3
    <3>4. CASE g.m1 <= q /\ p < g.m2
      <4>1. /\ array'[p] \in Positions /\ array'[q] \in Positions
            /\ text[array'[p]] \in Int /\ text[array'[q]] \in Int
        <5>1. array'[p] \in Positions /\ array'[q] \in Positions
          BY <1>13
        <5>2. QED
          BY <5>1, DataFacts
      <4>2. text[pivot] \in Int
        <5>1. g.m1 \in g.m1 .. (g.m2 - 1) /\ g.m1 \in Positions
          BY <1>4, <1>7 DEF Positions
        <5>2. text[array'[g.m1]] = text[pivot] /\ array'[g.m1] \in Positions
          BY <1>7, <1>13, <5>1
        <5>3. QED
          BY <5>2, DataFacts
      <4>3. text[array'[p]] <= text[pivot]
        BY <1>4, <1>7, <2>3, <3>1, <3>4, <4>1, <4>2
      <4>4. text[pivot] <= text[array'[q]]
        BY <1>4, <1>7, <2>3, <3>1, <3>4, <4>1, <4>2
      <4>5. QED
        BY <4>1, <4>2, <4>3, <4>4
    <3>5. QED
      BY <1>7, <3>1, <3>2, <3>3, <3>4
  <2>4. QED
    BY <2>2, <2>3
<1>26. QED
  BY <1>11, <1>13, <1>15, <1>20, <1>21, <1>22, <1>23, <1>24, <1>25 DEF IInv

LEMMA SpawnSecondKeepsIInv == ASSUME NEW t \in Threads, IInv, SpawnSecond(t) PROVE IInv'
<1> DEFINE r == Running(t)
           f == task[r]
           g == [f EXCEPT !.at = "waiting"]
           c == SecondPart(f)
           n == 2 * r + 1
<1>1. /\ stack[t] # <<>> /\ f.at = "spawning" /\ UNCHANGED input /\ array' = array
      /\ Create(t, n, c, g)
  BY DEF SpawnSecond, Runs, input, CreateSecond
<1>2. r \in Created /\ r \in Nat \ {0} /\ TeamInv /\ Bounded(f) /\ f.at # "ended"
  BY <1>1, RunningIsCreated, FrameFacts DEF IInv
<1>3. /\ g \in Frame /\ g.at = "waiting" /\ g.left = f.left /\ g.right = f.right
      /\ g.m1 = f.m1 /\ g.m2 = f.m2
  BY <1>2 DEF Bounded, Frame, SchedulingPoints
<1>4. /\ c \in Frame /\ c.at = "deferred" /\ c.left = f.m2 /\ c.right = f.right
      /\ c.m1 = c.left /\ c.m2 = c.right
  BY <1>2 DEF Bounded, SecondPart, Task, Frame, SchedulingPoints
<1> HIDE DEF g, c
<1>5. Bounded(g) /\ Bounded(c)
  BY <1>2, <1>3, <1>4 DEF Bounded
<1>6. /\ TeamInv' /\ Created' = Created \cup {n} /\ n \notin Created /\ phase' = phase
      /\ task'[n] = c /\ task'[r] = g /\ \A j \in Created \ {r} : task'[j] = task[j]
  <2>1. Early(c.at)
    BY <1>4 DEF Early
  <2>2. QED
    BY <1>1, <1>2, <1>3, <2>1, CreateFacts
<1>7. 2 * r \in Created /\ 2 * r # r
  BY <1>1, <1>2 DEF TeamInv, ChildrenOf
<1> HIDE DEF r, n
<1>8. n = 2 * r + 1
  BY DEF n
<1>9. count' = count /\ text' = text /\ Positions' = Positions /\ array' \in [Positions -> Positions]
  BY <1>1, DataFacts DEF input, Positions
<1>10. S!NoWordLost'
  BY <1>1, <1>9 DEF IInv, S!NoWordLost, S!Positions
<1>11. TypeOK'
  <2>1. \A k \in Created' : Bounded(task'[k])
    BY <1>5, <1>6, FrameFacts
  <2>2. QED
    BY <1>1, <1>9, <2>1, TypeAgain
\* The new task has to order what its parent had kept for it.
<1>12. /\ Unfinished(f) /\ ~Unfinished(g) /\ Pending(g) = {}
       /\ Unfinished(c) /\ First(c) = First(f) /\ Pending(c) = Pending(f) /\ c.right = f.right
       /\ Partitioned(f) /\ Partitioned(g) /\ ~Partitioned(c)
  BY <1>1, <1>3, <1>4, UnfinishedFacts DEF Partitioned
<1>13. \A j \in Created' : \E h \in Created :
         /\ Unfinished(task'[j]) =>
              /\ Unfinished(task[h]) /\ First(task'[j]) = First(task[h])
              /\ task'[j].right = task[h].right
              /\ h = IF j = n THEN r ELSE j
         /\ Pending(task'[j]) \subseteq Pending(task[h])
  <2>1. TAKE j \in Created'
  <2>2. CASE j = n
    BY <1>2, <1>6, <1>12, <2>2
  <2>3. CASE j = r
    BY <1>2, <1>6, <1>12, <2>3
  <2>4. CASE j \in Created \ {r}
    <3>1. task'[j] = task[j] /\ j # n
      BY <1>6, <2>4
    <3>2. QED
      BY <2>4, <3>1
  <2>5. QED
    BY <1>6, <2>2, <2>3, <2>4
<1>14. \A k \in Created' : Partitioned(task'[k]) \/ task'[k].at = "ended" =>
         /\ k \in Created
         /\ task'[k].left = task[k].left /\ task'[k].right = task[k].right
         /\ task'[k].m1 = task[k].m1 /\ task'[k].m2 = task[k].m2
         /\ Partitioned(task'[k]) => Partitioned(task[k])
         /\ task'[k].at = "ended" => task[k].at = "ended"
  BY <1>1, <1>2, <1>3, <1>4, <1>6, <1>12
<1>15. PendingApart'
  <2>1. SUFFICES ASSUME NEW j \in Created', NEW k \in Created', j # k,
                        Unfinished(task'[j]), Unfinished(task'[k])
                 PROVE  task'[j].right <= First(task'[k]) \/ task'[k].right <= First(task'[j])
    BY DEF PendingApart, Outside
  <2>2. j # r /\ k # r
    BY <1>6, <1>12, <2>1
  <2>3. QED
    BY <1>13, <2>1, <2>2 DEF IInv, PendingApart, Outside
<1>16. EqualsPlaced'
  <2>1. SUFFICES ASSUME NEW j \in Created', NEW k \in Created',
                        Unfinished(task'[j]), Partitioned(task'[k])
                 PROVE  /\ task'[j].right <= task'[k].m1 \/ task'[k].m2 <= First(task'[j])
                        /\ \/ task'[j].right <= task'[k].left \/ task'[k].right <= First(task'[j])
                           \/ task'[k].left <= First(task'[j]) /\ task'[j].right <= task'[k].right
    BY DEF EqualsPlaced, Outside, Partitioned
  <2>2. QED
    BY <1>13, <1>14, <2>1 DEF IInv, EqualsPlaced, Outside, Partitioned
<1>17. EndedApart'
  <2>1. SUFFICES ASSUME NEW j \in Created', NEW k \in Created', task'[k].at = "ended"
                 PROVE  Pending(task'[j]) \cap (task'[k].left .. (task'[k].right - 1)) = {}
    BY DEF EndedApart
  <2>2. PICK h \in Created : Pending(task'[j]) \subseteq Pending(task[h])
    BY <1>13
  <2>3. k \in Created /\ task[k].at = "ended"
        /\ task'[k].left = task[k].left /\ task'[k].right = task[k].right
    BY <1>14, <2>1
  <2>4. QED
    BY <2>2, <2>3 DEF IInv, EndedApart
<1>18. PartsHandedOn'
  <2>1. \A k \in Created : task'[k].left = task[k].left /\ task'[k].right = task[k].right
    BY <1>3, <1>6
  <2>2. ASSUME NEW k \in Created'
        PROVE  /\ Partitioned(task'[k]) =>
                    task'[2 * k].left = task'[k].left /\ task'[2 * k].right = task'[k].m1
               /\ task'[k].at = "waiting" =>
                    task'[2 * k + 1].left = task'[k].m2 /\ task'[2 * k + 1].right = task'[k].right
    <3>1. CASE k = r
      <4>1. task'[2 * r] = task[2 * r]
        BY <1>6, <1>7
      <4>2. task[2 * r].left = f.left /\ task[2 * r].right = f.m1
        BY <1>2, <1>12 DEF IInv, PartsHandedOn, Partitioned
      <4>3. QED
        BY <1>3, <1>4, <1>6, <1>8, <3>1, <4>1, <4>2
    <3>2. CASE k = n
      BY <1>4, <1>6, <3>2 DEF Partitioned
    <3>3. CASE k \notin {r, n}
      <4>1. k \in Created /\ task'[k] = task[k] /\ Created \subseteq Created'
        BY <1>6, <3>3
      <4>2. QED
        BY <1>6, <2>1, <4>1, PartsAgain
    <3>4. QED
      BY <3>1, <3>2, <3>3
  <2>3. QED
    BY <2>2 DEF PartsHandedOn, Partitioned
<1>19. EqualsStayBetween'
  <2>1. \A k \in Created : Partitioned(task[k]) => StillSplit(array, task[k])
    BY FrameFacts, EqualsAsSplit DEF IInv
  <2>2. \A k \in Created' : Partitioned(task'[k]) => StillSplit(array', task'[k])
    BY <1>1, <1>14, <2>1 DEF StillSplit
  <2>3. QED
    BY <1>9, <2>2 DEF EqualsStayBetween, Partitioned, StillSplit, SplitAt
<1>20. OrderedButPending'
  <2>1. phase # "called"
    BY <1>2, InRegion
  <2>2. \A k \in Created : \E j \in Created' : Pending(task'[j]) = Pending(task[k])
    BY <1>6, <1>12
  <2>3. QED
    BY <1>1, <1>9, <2>1, <2>2 DEF IInv, OrderedButPending
<1>21. QED
  BY <1>6, <1>10, <1>11, <1>15, <1>16, <1>17, <1>18, <1>19, <1>20 DEF IInv

\* A task that begins has the same range to order as before; one that ends after its
\* taskwait leaves a range of which the tasks it created have ended too.
LEMMA RuntimeKeepsIInv == ASSUME NEW t \in Threads, IInv, Runtime(t) PROVE IInv'
<1>1. TeamInv /\ UNCHANGED input /\ array' = array
  BY DEF Runtime, IInv, input
<1>2. \A k \in Created : Bounded(task[k]) /\ "at" \in DOMAIN task[k]
  BY FrameFacts
<1>3. PICK k \in Created :
        /\ TeamInv' /\ Created' = Created /\ phase' = phase
        /\ \/ /\ task[k].at = "waiting" /\ task'[k] = [task[k] EXCEPT !.at = "ended"]
              /\ \A c \in {2 * k, 2 * k + 1} : c \in Created /\ task[c].at = "ended"
           \/ task[k].at = "deferred" /\ task'[k] = [task[k] EXCEPT !.at = "working"]
        /\ \A j \in Created \ {k} : task'[j] = task[j]
  <2>1. CASE TaskWait(t)
    BY <1>1, <1>2, <2>1, TaskWaitFacts
  <2>2. CASE Begin(t)
    BY <1>1, <2>2, BeginFacts
  <2>3. QED
    BY <2>1, <2>2 DEF Runtime
<1>4. /\ task'[k] \in Frame
      /\ task'[k].left = task[k].left /\ task'[k].right = task[k].right
      /\ task'[k].m1 = task[k].m1 /\ task'[k].m2 = task[k].m2
      /\ \/ /\ task[k].at = "waiting" /\ task'[k].at = "ended"
            /\ \A c \in {2 * k, 2 * k + 1} : c \in Created /\ task[c].at = "ended"
         \/ task[k].at = "deferred" /\ task'[k].at = "working"
  BY <1>2, <1>3 DEF Bounded, Frame, SchedulingPoints
<1>5. Bounded(task'[k])
  BY <1>2, <1>4 DEF Bounded
<1>6. count' = count /\ text' = text /\ Positions' = Positions /\ array' \in [Positions -> Positions]
  BY <1>1, DataFacts DEF input, Positions
<1>7. S!NoWordLost'
  BY <1>1, <1>6 DEF IInv, S!NoWordLost, S!Positions
<1>8. TypeOK'
  BY <1>1, <1>2, <1>3, <1>5, <1>6, TypeAgain
<1>9. \A j \in Created :
        /\ Unfinished(task'[j]) <=> Unfinished(task[j])
        /\ Unfinished(task[j]) => First(task'[j]) = First(task[j])
        /\ Pending(task'[j]) = Pending(task[j])
        /\ task'[j].left = task[j].left /\ task'[j].right = task[j].right
        /\ task'[j].m1 = task[j].m1 /\ task'[j].m2 = task[j].m2
        /\ Partitioned(task'[j]) => Partitioned(task[j])
        /\ task'[j].at = "waiting" => task[j].at = "waiting"
  <2>1. /\ Unfinished(task'[k]) <=> Unfinished(task[k])
        /\ Unfinished(task[k]) => First(task'[k]) = First(task[k])
        /\ Pending(task'[k]) = Pending(task[k])
        /\ ~Partitioned(task'[k]) /\ task'[k].at # "waiting"
    <3>1. CASE task[k].at = "waiting" /\ task'[k].at = "ended"
      BY <3>1, UnfinishedFacts DEF Partitioned
    <3>2. CASE task[k].at = "deferred" /\ task'[k].at = "working"
      BY <1>4, <3>2, UnfinishedFacts DEF Partitioned
    <3>3. QED
      BY <1>4, <3>1, <3>2
  <2>2. QED
    BY <1>3, <1>4, <2>1
<1>10. PendingApart' /\ EqualsPlaced'
  BY <1>3, <1>9 DEF IInv, PendingApart, EqualsPlaced, Outside, Partitioned
<1>11. EndedApart'
  <2>1. SUFFICES ASSUME NEW j \in Created, NEW h \in Created, task'[h].at = "ended"
                 PROVE  Pending(task[j]) \cap (task[h].left .. (task[h].right - 1)) = {}
    BY <1>3, <1>9 DEF EndedApart
  <2>2. CASE task[h].at = "ended"
    BY <2>2 DEF IInv, EndedApart
  <2>3. CASE task[h].at # "ended"
    <3>1. h = k /\ task[k].at = "waiting"
      BY <1>3, <1>4, <2>1, <2>3
    <3>2. \A c \in {2 * k, 2 * k + 1} : c \in Created /\ task[c].at = "ended"
      BY <1>4, <3>1
    <3>3. /\ task[2 * k].left = task[k].left /\ task[2 * k].right = task[k].m1
          /\ task[2 * k + 1].left = task[k].m2 /\ task[2 * k + 1].right = task[k].right
      BY <3>1 DEF IInv, PartsHandedOn
    <3>4. /\ Pending(task[j]) \cap (task[k].left .. (task[k].m1 - 1)) = {}
          /\ Pending(task[j]) \cap (task[k].m2 .. (task[k].right - 1)) = {}
      BY <3>2, <3>3 DEF IInv, EndedApart
    <3>5. Pending(task[j]) \cap (task[k].m1 .. (task[k].m2 - 1)) = {}
      <4>1. Unfinished(task[j]) => task[j].right <= task[k].m1 \/ task[k].m2 <= First(task[j])
        BY <3>1 DEF IInv, EqualsPlaced, Outside
      <4>2. First(task[j]) \in Int /\ task[j].right \in Int /\ Bounded(task[k])
        BY FrameFacts
      <4>3. QED
        BY <4>1, <4>2 DEF Pending, Bounded
    <3>6. \A p \in task[k].left .. (task[k].right - 1) :
            \/ p \in task[k].left .. (task[k].m1 - 1)
            \/ p \in task[k].m1 .. (task[k].m2 - 1)
            \/ p \in task[k].m2 .. (task[k].right - 1)
      BY <1>2 DEF Bounded
    <3>7. QED
      BY <3>1, <3>4, <3>5, <3>6
  <2>4. QED
    BY <2>2, <2>3
<1>12. PartsHandedOn'
  <2>1. \A j \in Created : Partitioned(task'[j]) =>
          2 * j \in Created /\ (task'[j].at = "waiting" => 2 * j + 1 \in Created)
    BY <1>1, <1>9 DEF TeamInv, ChildrenOf, Partitioned
  <2>2. QED
    BY <1>3, <1>9, <2>1 DEF IInv, PartsHandedOn, Partitioned
<1>13. EqualsStayBetween'
  <2>1. \A j \in Created : Partitioned(task[j]) => StillSplit(array, task[j])
    BY FrameFacts, EqualsAsSplit DEF IInv
  <2>2. \A j \in Created' : Partitioned(task'[j]) => StillSplit(array', task'[j])
    BY <1>1, <1>3, <1>9, <2>1 DEF StillSplit
  <2>3. QED
    BY <1>6, <2>2 DEF EqualsStayBetween, Partitioned, StillSplit, SplitAt
<1>14. phase # "called" => OrderedButPending'
  BY <1>1, <1>3, <1>6, <1>9 DEF IInv, OrderedButPending
<1>15. QED
  BY <1>3, <1>7, <1>8, <1>10, <1>11, <1>12, <1>13, <1>14 DEF IInv

LEMMA LeaveKeepsIInv == IInv /\ Leave => IInv'
<1> SUFFICES ASSUME IInv, Leave PROVE IInv'
  OBVIOUS
<1>1. TeamInv /\ UNCHANGED input /\ array' = array /\ LeaveRegion /\ phase = "region"
  BY DEF Leave, LeaveRegion, IInv, input
<1>2. TeamInv' /\ Created' = Created /\ task' = task
  BY <1>1, LeaveRegionFacts
<1>3. count' = count /\ text' = text /\ Positions' = Positions
  BY <1>1 DEF input, Positions
<1>4. S!NoWordLost'
  BY <1>1, <1>3 DEF IInv, S!NoWordLost, S!Positions
<1>5. TypeOK'
  BY <1>1, <1>2, DataFacts, FrameFacts, TypeAgain
<1>6. PendingApart' /\ EqualsPlaced' /\ EndedApart' /\ PartsHandedOn'
  BY <1>2 DEF IInv, PendingApart, EqualsPlaced, EndedApart, PartsHandedOn
<1>7. EqualsStayBetween' /\ OrderedButPending'
  BY <1>1, <1>2, <1>3 DEF IInv, EqualsStayBetween, OrderedButPending
<1>8. QED
  BY <1>2, <1>4, <1>5, <1>6, <1>7 DEF IInv

LEMMA StutterKeepsIInv == IInv /\ UNCHANGED vars => IInv'
<1> SUFFICES ASSUME IInv, UNCHANGED vars PROVE IInv'
  OBVIOUS
<1>1. TeamInv /\ UNCHANGED input /\ array' = array /\ UNCHANGED team
  BY DEF vars, IInv, input, team
<1>2. TeamInv' /\ Created' = Created
  BY <1>1, TeamStutters
<1>3. count' = count /\ text' = text /\ Positions' = Positions /\ task' = task /\ phase' = phase
  BY <1>1 DEF input, team, Positions
<1>4. S!NoWordLost'
  BY <1>1, <1>3 DEF IInv, S!NoWordLost, S!Positions
<1>5. TypeOK'
  BY <1>1, <1>2, <1>3, DataFacts, FrameFacts, TypeAgain
<1>6. PendingApart' /\ EqualsPlaced' /\ EndedApart' /\ PartsHandedOn'
  BY <1>2, <1>3 DEF IInv, PendingApart, EqualsPlaced, EndedApart, PartsHandedOn
<1>7. EqualsStayBetween' /\ (phase # "called" => OrderedButPending')
  BY <1>1, <1>2, <1>3 DEF IInv, EqualsStayBetween, OrderedButPending
<1>8. QED
  BY <1>2, <1>3, <1>4, <1>5, <1>6, <1>7 DEF IInv

(***************************************************************************)
(* The theorems.                                                           *)
(***************************************************************************)
LEMMA NextKeepsIInv == IInv /\ [Next]_vars => IInv'
BY CallKeepsIInv, SequentialKeepsIInv, PartitionKeepsIInv, SpawnSecondKeepsIInv,
   RuntimeKeepsIInv, LeaveKeepsIInv, StutterKeepsIInv
   DEF Next, Step, Returned

(* The invariant of the quicksort over the three-way partition, whatever thread *)
(* takes which task.                                                            *)
THEOREM ParInvariance == Spec => []IInv
<1>1. IInv /\ [Next]_vars => IInv'
  BY NextKeepsIInv
<1>2. QED
  BY InitIInv, <1>1, PTL DEF Spec

(* No two tasks that may be at work at the same moment share a position: the    *)
(* blocks of two partitions and quick_sort_recursive need no lock around words. *)
THEOREM NoParRaces == Spec => []NoDataRace
<1>1. IInv => NoDataRace
  BY UnfinishedFacts DEF IInv, PendingApart, Outside, NoDataRace
<1>2. QED
  BY ParInvariance, <1>1, PTL

(* While its outer parts are sorted, the words equal to a task's pivot, which no *)
(* task gets, stay where they are, with the smaller words before them and the    *)
(* larger ones behind.                                                           *)
THEOREM EqualsAreNeverMoved == Spec => []EqualsStayBetween
<1>1. IInv => EqualsStayBetween
  BY DEF IInv
<1>2. QED
  BY ParInvariance, <1>1, PTL

(* A task's shared parameters outlive the task here too. *)
THEOREM ParParametersAlive == Spec => []SharedArrayAlive
<1>1. IInv => SharedArrayAlive
  BY SharedParameter DEF IInv
<1>2. QED
  BY ParInvariance, <1>1, PTL

(* Nobody touches the range of a task that has ended, with no lock to keep the  *)
(* tasks that go on away from it.                                               *)
THEOREM EndedRangesAreFinal == Spec => EndedForGood
<1>1. IInv /\ [Next]_vars =>
        [\A k \in Created : task[k].at = "ended" =>
           \A p \in task[k].left .. (task[k].right - 1) : array'[p] = array[p]]_vars
  <2> SUFFICES ASSUME IInv, Next
               PROVE  \A k \in Created : task[k].at = "ended" =>
                        \A p \in task[k].left .. (task[k].right - 1) : array'[p] = array[p]
    OBVIOUS
  <2>1. ASSUME NEW t \in Threads, Sequential(t) \/ Partition(t)
        PROVE  \A k \in Created : task[k].at = "ended" =>
                 \A p \in task[k].left .. (task[k].right - 1) : array'[p] = array[p]
    <3>1. PICK r \in Created :
            /\ task[r].at = "working" /\ UNCHANGED input
            /\ Rearranged(array, array', task[r].left, task[r].right - 1)
      BY <2>1, SequentialSorts, PartitionSplits
    <3>2. QED
      BY <3>1, RangeRewritten
  <2>2. CASE array' = array
    BY <2>2
  <2>3. QED
    BY <2>1, <2>2 DEF Next, Step, quicksort_parallel, SpawnSecond, Runtime, Leave, Returned, vars
<1>2. QED
  BY ParInvariance, <1>1, PTL DEF Spec, EndedForGood

(* quicksort_parallel implements the sort that WordList is written against. *)
THEOREM ParImplementsSorting == Spec => Contract
<1>1. Init => S!Init
  BY DEF Init, InputInit, TeamInit, S!Init, Positions, S!Positions
<1>2. IInv /\ [Next]_vars => [S!Next]_<<count, text, array, phase = "returned">>
  <2> SUFFICES ASSUME IInv, [Next]_vars,
                      ~ UNCHANGED <<count, text, array, phase = "returned">>
               PROVE  S!Next
    OBVIOUS
  <2>1. IInv'
    BY NextKeepsIInv
  <2>2. ASSUME NEW t \in Threads, Step(t) PROVE S!Next
    <3>1. count' = count /\ text' = text /\ phase' = phase
      BY <2>2 DEF Step, Sequential, EndTask, Partition, CreateFirst, SpawnSecond, CreateSecond,
         Create, Runtime, TaskWait, Begin, input
    <3>2. phase # "returned"
      <4>1. CASE Begin(t)
        BY <4>1 DEF Begin
      <4>2. CASE ~Begin(t)
        <5>1. stack[t] # <<>> /\ task[Running(t)].at # "ended"
          BY <2>2, <4>2 DEF Step, Sequential, Partition, SpawnSecond, Runtime, TaskWait, Runs
        <5>2. Running(t) \in Created /\ TeamInv
          BY <5>1, RunningIsCreated DEF IInv
        <5>3. QED
          BY <5>1, <5>2, InRegion
      <4>3. QED
        BY <4>1, <4>2
    <3>3. array' \in [Positions -> Positions] /\ S!NoWordLost'
      BY <2>1, <3>1 DEF IInv, TypeOK, Positions
    <3>4. S!Rearrange
      BY <3>1, <3>2, <3>3 DEF S!Rearrange, S!Positions, Positions
    <3>5. QED
      BY <3>4 DEF S!Next
  <2>3. ASSUME quicksort_parallel \/ Leave PROVE S!Next
    <3>1. count' = count /\ text' = text /\ array' = array /\ phase # "returned"
      BY <2>3 DEF quicksort_parallel, Leave, LeaveRegion, input
    <3>2. phase' = "returned"
      <4>1. CASE phase' # "returned"
        BY <3>1, <4>1
      <4>2. QED
        BY <4>1
    <3>3. S!Sorted
      <4>1. \A k \in Created' : task'[k].at = "ended"
        BY <2>1, <3>2 DEF IInv, TeamInv
      <4>2. \A k \in Created' : Pending(task'[k]) = {}
        BY <4>1 DEF Pending, Unfinished
      <4>3. OrderedButPending'
        BY <2>1, <3>2 DEF IInv
      <4>4. \A p, q \in Positions : p < q => text[array[p]] <= text[array[q]]
        BY <3>1, <4>2, <4>3 DEF OrderedButPending, Positions
      <4>5. QED
        BY <4>4 DEF S!Sorted, S!Positions, Positions
    <3>4. S!Return
      BY <3>1, <3>2, <3>3 DEF S!Return
    <3>5. QED
      BY <3>4 DEF S!Next
  <2>4. ~UNCHANGED vars
    BY DEF vars, input, team
  <2>5. QED
    BY <2>2, <2>3, <2>4 DEF Next, Returned
<1>3. QED
  BY ParInvariance, <1>1, <1>2, PTL DEF Spec, Contract, S!Spec
=============================================================================
