-------------------------- MODULE BaselineSortProofs -------------------------
(***************************************************************************)
(* Proofs about BaselineSort: for every set of array lengths and every set *)
(* of words, the invariant IInv holds, and with it that every word keeps   *)
(* an occurrence, that equal words meet, that the result has each word     *)
(* once and in order, and that the depth of the recursion is bounded.      *)
(***************************************************************************)
EXTENDS BaselineSort, SequenceTheorems, TLAPS

(***************************************************************************)
(* The three ways the call stack changes.                                  *)
(***************************************************************************)
LEMMA Replace ==
  ASSUME NEW F, NEW s \in Seq(F), NEW n \in Nat, n = Len(s), n > 0, NEW f \in F,
         NEW r, r = [s EXCEPT ![n] = f]
  PROVE  /\ r \in Seq(F) /\ r # <<>>
         /\ Len(r) = n
         /\ r[n] = f
         /\ \A k \in 1 .. (n - 1) : r[k] = s[k]
OBVIOUS

LEMMA ReplaceAndPush ==
  ASSUME NEW F, NEW s \in Seq(F), NEW n \in Nat, n = Len(s), n > 0,
         NEW f \in F, NEW c \in F,
         NEW t, t = Append([s EXCEPT ![n] = f], c)
  PROVE  /\ t \in Seq(F) /\ t # <<>>
         /\ Len(t) = n + 1
         /\ t[n + 1] = c
         /\ t[n] = f
         /\ \A k \in 1 .. (n - 1) : t[k] = s[k]
OBVIOUS

LEMMA Pop ==
  ASSUME NEW F, NEW s \in Seq(F), NEW n \in Nat, n = Len(s), n > 0
  PROVE  LET t == SubSeq(s, 1, n - 1)
         IN  /\ t \in Seq(F)
             /\ Len(t) = n - 1
             /\ t = <<>> <=> n = 1
             /\ \A k \in 1 .. (n - 1) : t[k] = s[k]
<1> DEFINE t == SubSeq(s, 1, n - 1)
<1>1. t \in Seq(F) /\ Len(t) = n - 1
  BY SubSeqProperties
<1>2. t = <<>> <=> n = 1
  <2>1. t = <<>> <=> Len(t) = 0
    BY <1>1, EmptySeq
  <2>2. n - 1 = 0 <=> n = 1
    OBVIOUS
  <2>3. QED
    BY <1>1, <2>1, <2>2, Zenon
<1>3. \A k \in 1 .. (n - 1) : t[k] = s[k]
  OBVIOUS
<1>4. QED
  BY <1>1, <1>2, <1>3

(***************************************************************************)
(* What the invariant says of the array and of the call stack.             *)
(***************************************************************************)
LEMMA DataFacts ==
  ASSUME IInv
  PROVE  /\ count \in Nat
         /\ phase # "returned" => Positions = 0 .. (count - 1)
         /\ 0 .. (count - 1) \subseteq Positions
         /\ \A p \in Positions : p \in Nat
         /\ array \in [Positions -> Positions \cup {NULL}]
         /\ text \in [Positions -> Word]
         /\ \A p \in Positions : text[p] \in Int
         /\ NULL \notin Positions
         /\ \A p \in Positions : array[p] # NULL => array[p] \in Positions /\ text[array[p]] \in Int
<1>1. PICK n \in Counts :
        Positions = 0 .. (n - 1) /\ count \in 0 .. n /\ (phase # "returned" => count = n)
  BY DEF IInv, TypeOK
<1>2. n \in Nat /\ Word \subseteq Int
  BY CountsAssumption, WordAssumption
<1>3. /\ count \in Nat
      /\ phase # "returned" => Positions = 0 .. (count - 1)
      /\ 0 .. (count - 1) \subseteq Positions
      /\ \A p \in Positions : p \in Nat
      /\ NULL \notin Positions
  BY <1>1, <1>2 DEF NULL
<1>4. array \in [Positions -> Positions \cup {NULL}] /\ text \in [Positions -> Word]
  BY DEF IInv, TypeOK
<1>5. \A p \in Positions : text[p] \in Int
  BY <1>2, <1>4
<1>6. QED
  BY <1>3, <1>4, <1>5

LEMMA StackFacts ==
  ASSUME IInv, stack # <<>>
  PROVE  /\ Depth \in Nat /\ Depth > 0 /\ Depth = Len(stack)
         /\ stack \in Seq(Frame)
         /\ \A k \in 1 .. Depth :
              /\ stack[k] \in Frame
              /\ stack[k].left \in Int /\ stack[k].right \in Int
              /\ stack[k].partition_index \in Int
         /\ Top \in Frame
         /\ Top.left \in Int /\ Top.right \in Int /\ Top.partition_index \in Int
         /\ phase = "sorting" /\ count \in Nat /\ count > 1
         /\ Positions = 0 .. (count - 1) /\ Left = Positions
<1>1. Depth \in Nat /\ Depth = Len(stack) /\ stack \in Seq(Frame)
  BY LenProperties DEF IInv, TypeOK, Depth
<1>2. Depth > 0
  BY <1>1, EmptySeq
<1>3. phase = "sorting" /\ count > 1
  BY DEF IInv
<1>4. count \in Nat /\ Positions = 0 .. (count - 1)
  BY <1>3, DataFacts
<1>5. \A k \in 1 .. Depth :
        /\ stack[k] \in Frame
        /\ stack[k].left \in Int /\ stack[k].right \in Int
        /\ stack[k].partition_index \in Int
  <2>1. TAKE k \in 1 .. Depth
  <2>2. stack[k] \in Frame
    BY <1>1, ElementOfSeq
  <2>3. QED
    BY <1>4, <2>2 DEF Frame
<1>6. Top \in Frame /\ Top.left \in Int /\ Top.right \in Int /\ Top.partition_index \in Int
  BY <1>1, <1>2, <1>5 DEF Top
<1>7. Left = Positions
  BY <1>3, <1>4 DEF Left
<1>8. QED
  BY <1>1, <1>2, <1>3, <1>4, <1>5, <1>6, <1>7

(***************************************************************************)
(* A position of the running activation's range is pending in no caller.   *)
(***************************************************************************)
LEMMA PendingDisjoint ==
  ASSUME IInv, stack # <<>>, NEW p \in Positions, InRange(p, Top),
         NEW k \in 1 .. (Depth - 1)
  PROVE  p \notin Pending(stack[k])
<1>1. Depth \in Nat /\ Depth > 0 /\ k \in 1 .. Depth /\ Depth \in (k + 1) .. Depth
  BY StackFacts
<1>2. stack[k].at \in {"left", "right"} /\ stack[k] \in Frame
  BY <1>1, StackFacts DEF IInv, CallersWait
<1>3. InCall(p, stack[k])
  BY <1>1 DEF IInv, Nested, Top
<1>4. /\ p \in Int /\ stack[k].left \in Int /\ stack[k].right \in Int
      /\ stack[k].partition_index \in Int
  BY <1>1, StackFacts, DataFacts
<1>5. QED
  BY <1>2, <1>3, <1>4 DEF InCall, Pending

(***************************************************************************)
(* What the running activation does to its range, exchanging words and     *)
(* dropping some, keeps the order of every pair that is not inside it.     *)
(***************************************************************************)
\* In b each position of the range has NULL or a word of the range.
Rewritten(b) ==
  /\ b \in [Positions -> Positions \cup {NULL}]
  /\ \A p \in Positions : ~InRange(p, Top) => b[p] = array[p]
  /\ \A p \in Positions : (InRange(p, Top) /\ b[p] # NULL) =>
       \E r \in Positions : InRange(r, Top) /\ b[p] = array[r]

\* The words at p and q are in order in b, or pending in one of the first d activations.
InOrder(b, p, q, d) ==
  (b[p] # NULL /\ b[q] # NULL) =>
    \/ text[b[p]] < text[b[q]]
    \/ \E k \in 1 .. d : p \in Pending(stack[k]) /\ q \in Pending(stack[k])

LEMMA OutsideStaysOrdered ==
  ASSUME IInv, stack # <<>>, Top.at \in {"entered", "partitioning"},
         NEW b, Rewritten(b),
         NEW p \in Positions, NEW q \in Positions, p < q,
         ~(InRange(p, Top) /\ InRange(q, Top))
  PROVE  InOrder(b, p, q, Depth - 1)
<1>1. /\ Depth \in Nat /\ Depth > 0 /\ Top.left \in Int /\ Top.right \in Int
      /\ phase = "sorting" /\ Left = Positions
      /\ \A x \in Positions : x \in Int
  BY StackFacts, DataFacts
<1>2. ASSUME NEW x \in Positions, NEW y \in Positions, x < y,
             ~(InRange(x, Top) /\ InRange(y, Top)), array[x] # NULL, array[y] # NULL
      PROVE  \/ text[array[x]] < text[array[y]]
             \/ \E k \in 1 .. (Depth - 1) : x \in Pending(stack[k]) /\ y \in Pending(stack[k])
  <2>1. \/ text[array[x]] < text[array[y]]
        \/ \E k \in 1 .. Depth : x \in Pending(stack[k]) /\ y \in Pending(stack[k])
    BY <1>1, <1>2 DEF IInv, OrderedButPending
  <2>2. ~(x \in Pending(Top) /\ y \in Pending(Top))
    BY <1>1, <1>2 DEF Pending, InRange
  <2>3. \A k \in 1 .. Depth : k = Depth \/ k \in 1 .. (Depth - 1)
    BY <1>1
  <2>4. QED
    BY <2>1, <2>2, <2>3 DEF Top
<1>3. SUFFICES ASSUME b[p] # NULL, b[q] # NULL
               PROVE  \/ text[b[p]] < text[b[q]]
                      \/ \E k \in 1 .. (Depth - 1) : p \in Pending(stack[k]) /\ q \in Pending(stack[k])
  BY DEF InOrder
<1>4. CASE InRange(p, Top)
  <2>1. PICK r \in Positions : InRange(r, Top) /\ b[p] = array[r]
    BY <1>3, <1>4 DEF Rewritten
  <2>2. r < q /\ ~InRange(q, Top) /\ b[q] = array[q]
    BY <1>1, <1>4, <2>1 DEF InRange, Rewritten
  <2>3. \A k \in 1 .. (Depth - 1) : r \notin Pending(stack[k])
    BY <2>1, PendingDisjoint
  <2>4. QED
    BY <1>2, <1>3, <2>1, <2>2, <2>3
<1>5. CASE InRange(q, Top)
  <2>1. PICK r \in Positions : InRange(r, Top) /\ b[q] = array[r]
    BY <1>3, <1>5 DEF Rewritten
  <2>2. p < r /\ ~InRange(p, Top) /\ b[p] = array[p]
    BY <1>1, <1>5, <2>1 DEF InRange, Rewritten
  <2>3. \A k \in 1 .. (Depth - 1) : r \notin Pending(stack[k])
    BY <2>1, PendingDisjoint
  <2>4. QED
    BY <1>2, <1>3, <2>1, <2>2, <2>3
<1>6. CASE ~InRange(p, Top) /\ ~InRange(q, Top)
  <2>1. b[p] = array[p] /\ b[q] = array[q]
    BY <1>6 DEF Rewritten
  <2>2. QED
    BY <1>2, <1>3, <1>6, <2>1
<1>7. QED
  BY <1>4, <1>5, <1>6

\* b is a with the words at x and y exchanged.
Swapped(b, a, x, y) ==
  /\ b[x] = a[y]
  /\ x # y => b[y] = a[x]
  /\ \A p \in Positions : p # x /\ p # y => b[p] = a[p]

\* An exchange, the second word of which may have been dropped.
LEMMA SwapFacts ==
  ASSUME IInv, stack # <<>>,
         NEW x \in Positions, NEW y \in Positions, InRange(x, Top), InRange(y, Top),
         NEW a \in {array, [array EXCEPT ![y] = NULL]},
         NEW b, b = swap(a, x, y)
  PROVE  Rewritten(b) /\ Swapped(b, a, x, y)
<1>1. array \in [Positions -> Positions \cup {NULL}]
  BY DataFacts
<1>2. /\ a \in [Positions -> Positions \cup {NULL}]
      /\ a[y] \in {array[y], NULL}
      /\ \A p \in Positions : p # y => a[p] = array[p]
  BY <1>1
<1>3. /\ b \in [Positions -> Positions \cup {NULL}]
      /\ b[x] = a[y]
      /\ x # y => b[y] = array[x]
      /\ \A p \in Positions : p # x /\ p # y => b[p] = array[p]
  BY <1>1, <1>2 DEF swap
<1>4. \A p \in Positions : ~InRange(p, Top) => b[p] = array[p]
  BY <1>3
<1>5. \A p \in Positions : (InRange(p, Top) /\ b[p] # NULL) =>
        \E r \in Positions : InRange(r, Top) /\ b[p] = array[r]
  BY <1>2, <1>3
<1>6. Swapped(b, a, x, y)
  BY <1>2, <1>3 DEF Swapped
<1>7. QED
  BY <1>3, <1>4, <1>5, <1>6 DEF Rewritten

\* Every word keeps an occurrence if what is dropped is found elsewhere.
Survive(b) ==
  \A p \in Positions : array[p] # NULL =>
    \E q \in Positions : b[q] # NULL /\ text[b[q]] = text[array[p]]

LEMMA WordsSurvive ==
  ASSUME IInv, stack # <<>>, NEW b, Survive(b)
  PROVE  \A w \in Positions : \E p \in Positions : b[p] # NULL /\ text[b[p]] = text[w]
<1>1. TAKE w \in Positions
<1>2. PICK p \in Positions : array[p] # NULL /\ text[array[p]] = text[w]
  BY StackFacts DEF IInv, OneOfEachLeft
<1>3. QED
  BY <1>2 DEF Survive

(***************************************************************************)
(* What a step of the sort leaves as it is.                                *)
(***************************************************************************)
LEMMA TypeAgain ==
  ASSUME IInv, phase # "returned", phase' \in {"sorting", "compacting"},
         count' = count, text' = text,
         array' \in [Positions -> Positions \cup {NULL}],
         stack' \in Seq(Frame), \A k \in 1 .. Depth' : stack'[k].left <= stack'[k].right + 1,
         idx' \in Int, i' \in Int, j' \in Int
  PROVE  TypeOK' /\ Positions' = Positions /\ Frame' = Frame
<1>1. Positions' = Positions /\ Frame' = Frame
  BY DEF Positions, Frame
<1>2. PICK n \in Counts : Positions = 0 .. (n - 1) /\ count \in 0 .. n /\ count = n
  BY DEF IInv, TypeOK
<1>3. text' \in [Positions' -> Word]
  BY <1>1 DEF IInv, TypeOK
<1>4. QED
  BY <1>1, <1>2, <1>3 DEF TypeOK

\* While the sort runs, its invariant is about the whole array.
LEMMA SortingAgain ==
  ASSUME TypeOK', count' = count, text' = text, Positions' = Positions,
         Positions = 0 .. (count - 1), count > 1,
         phase' = "sorting", stack' # <<>>,
         CallersWait', Nested', LoopInv',
         \A w \in Positions : \E p \in Positions : array'[p] # NULL /\ text[array'[p]] = text[w],
         \A p, q \in Positions : (p < q /\ array'[p] # NULL /\ array'[q] # NULL) =>
           \/ text[array'[p]] < text[array'[q]]
           \/ \E k \in 1 .. Depth' : p \in Pending(stack'[k]) /\ q \in Pending(stack'[k])
  PROVE  IInv'
<1>1. Left' = Positions
  BY DEF Left
<1>2. OneOfEachLeft'
  BY <1>1 DEF OneOfEachLeft
<1>3. OrderedButPending'
  BY <1>1 DEF OrderedButPending
<1>4. GapsClosed'
  BY DEF GapsClosed
<1>5. QED
  BY <1>2, <1>3, <1>4 DEF IInv

(***************************************************************************)
(* The invariant holds initially and every action keeps it.                *)
(***************************************************************************)
LEMMA InitIInv == Init => IInv
<1> SUFFICES ASSUME Init PROVE IInv
  OBVIOUS
<1>1. count \in Nat /\ count \in Counts /\ Word \subseteq Int
  BY CountsAssumption, WordAssumption DEF Init
<1>2. Depth = 0 /\ stack = <<>> /\ phase = "called"
  BY DEF Init, Depth
<1>3. Positions = 0 .. (count - 1) /\ Left = Positions
  BY <1>2 DEF Init, Positions, Left
<1>4. array = [p \in Positions |-> p] /\ text \in [Positions -> Word] /\ NULL \notin Positions
  BY <1>1, <1>3 DEF Init, NULL
<1>5. TypeOK
  <2>1. count \in 0 .. count
    BY <1>1
  <2>2. stack \in Seq(Frame)
    BY <1>2
  <2>3. QED
    BY <1>1, <1>2, <1>3, <1>4, <2>1, <2>2 DEF Init, TypeOK
<1>6. CallersWait /\ Nested /\ LoopInv
  BY <1>2 DEF CallersWait, Nested, LoopInv
<1>7. OneOfEachLeft /\ GapsClosed
  BY <1>2, <1>3, <1>4 DEF OneOfEachLeft, GapsClosed
<1>8. OrderedButPending
  BY <1>1, <1>2, <1>3 DEF OrderedButPending
<1>9. QED
  BY <1>2, <1>5, <1>6, <1>7, <1>8 DEF IInv

LEMMA CallKeepsIInv == IInv /\ SequentialSortUniqueWords => IInv'
<1> SUFFICES ASSUME IInv, SequentialSortUniqueWords PROVE IInv'
  OBVIOUS
<1>1. /\ count' = count /\ text' = text /\ array' = array
      /\ idx' = idx /\ i' = i /\ pivot' = pivot /\ j' = j
      /\ phase = "called" /\ stack = <<>>
  BY DEF SequentialSortUniqueWords, IInv
<1>2. /\ count \in Nat /\ Positions = 0 .. (count - 1) /\ Left = Positions
      /\ array \in [Positions -> Positions \cup {NULL}]
  BY <1>1, DataFacts DEF Left
<1>3. Positions' = Positions /\ Frame' = Frame
  BY <1>1 DEF Positions, Frame
<1>4. \A w \in Positions : \E p \in Positions : array[p] # NULL /\ text[array[p]] = text[w]
  BY <1>2 DEF IInv, OneOfEachLeft
<1>5. CASE count <= 1
  <2>1. phase' = "returned" /\ stack' = <<>> /\ Depth' = 0
    BY <1>1, <1>5 DEF SequentialSortUniqueWords, Depth
  <2>2. Left' = Positions
    BY <1>1, <1>2, <2>1 DEF Left
  <2>3. TypeOK'
    <3>1. PICK n \in Counts : Positions = 0 .. (n - 1) /\ count \in 0 .. n
      BY DEF IInv, TypeOK
    <3>2. stack' \in Seq(Frame)
      BY <2>1
    <3>3. QED
      BY <1>1, <1>3, <2>1, <3>1, <3>2 DEF IInv, TypeOK
  <2>4. CallersWait' /\ Nested' /\ LoopInv'
    BY <2>1 DEF CallersWait, Nested, LoopInv
  <2>5. OneOfEachLeft' /\ GapsClosed'
    BY <1>1, <1>2, <1>3, <1>4, <2>1, <2>2 DEF IInv, OneOfEachLeft, GapsClosed
  <2>6. OrderedButPending'
    BY <1>1, <1>2, <1>5, <2>2 DEF OrderedButPending
  <2>7. QED
    BY <2>1, <2>3, <2>4, <2>5, <2>6 DEF IInv
<1>6. CASE count > 1
  <2> DEFINE f == Call(0, count - 1)
  <2>1. phase' = "sorting" /\ stack' = <<f>>
    BY <1>1, <1>2, <1>6 DEF SequentialSortUniqueWords
  <2>2. /\ f \in Frame /\ f.left = 0 /\ f.right = count - 1
        /\ f.at = "entered" /\ f.partition_index = 0
    BY <1>2, <1>6 DEF Call, Frame
  <2> HIDE DEF f
  <2>3. /\ stack' \in Seq(Frame) /\ stack' # <<>> /\ Depth' = 1
        /\ Top' = f /\ \A k \in 1 .. Depth' : stack'[k] = f
    BY <2>1, <2>2 DEF Depth, Top
  <2>4. TypeOK'
    <3>1. \A k \in 1 .. Depth' : stack'[k].left <= stack'[k].right + 1
      BY <1>6, <1>2, <2>2, <2>3
    <3>2. idx' \in Int /\ i' \in Int /\ j' \in Int
      BY <1>1 DEF IInv, TypeOK
    <3>3. QED
      BY <1>1, <1>2, <2>1, <2>3, <3>1, <3>2, TypeAgain
  <2>5. CallersWait' /\ LoopInv'
    BY <2>2, <2>3 DEF CallersWait, LoopInv
  <2>6. Nested'
    BY <1>1, <1>2, <2>2, <2>3 DEF Nested
  <2>7. \A p, q \in Positions : (p < q /\ array'[p] # NULL /\ array'[q] # NULL) =>
           \/ text[array'[p]] < text[array'[q]]
           \/ \E k \in 1 .. Depth' : p \in Pending(stack'[k]) /\ q \in Pending(stack'[k])
    BY <1>2, <2>2, <2>3 DEF Pending
  <2>8. \A w \in Positions : \E p \in Positions : array'[p] # NULL /\ text[array'[p]] = text[w]
    BY <1>1, <1>4
  <2>9. QED
    BY <1>1, <1>2, <1>3, <1>6, <2>1, <2>3, <2>4, <2>5, <2>6, <2>7, <2>8, SortingAgain
<1>7. QED
  BY <1>2, <1>5, <1>6

LEMMA PartitionKeepsIInv == IInv /\ Partition => IInv'
<1> SUFFICES ASSUME IInv, Partition PROVE IInv'
  OBVIOUS
<1> DEFINE f == [Top EXCEPT !.at = "partitioning"]
<1>1. /\ Depth \in Nat /\ Depth > 0 /\ Depth = Len(stack)
      /\ stack \in Seq(Frame) /\ stack # <<>>
      /\ Top \in Frame /\ Top.left \in Int /\ Top.right \in Int
      /\ phase = "sorting" /\ count \in Nat /\ count > 1
      /\ Positions = 0 .. (count - 1) /\ Left = Positions
      /\ array \in [Positions -> Positions \cup {NULL}]
  BY StackFacts, DataFacts DEF Partition
<1>2. /\ count' = count /\ text' = text /\ array' = array /\ phase' = phase
      /\ j' = j
      /\ Top.at = "entered" /\ Top.left < Top.right /\ array[Top.right] # NULL
      /\ idx' = Top.left /\ i' = Top.left /\ pivot' = array[Top.right]
  BY DEF Partition
<1>4. /\ f \in Frame /\ f.left = Top.left /\ f.right = Top.right
      /\ f.at = "partitioning" /\ f.partition_index = Top.partition_index
  BY <1>1 DEF Frame
<1>5. stack' = [stack EXCEPT ![Depth] = f]
  BY DEF Partition, Top
<1> HIDE DEF f
<1>6. /\ stack' \in Seq(Frame) /\ stack' # <<>> /\ Depth' = Depth
      /\ stack'[Depth] = f /\ Top' = f
      /\ \A k \in 1 .. (Depth - 1) : stack'[k] = stack[k]
  BY <1>1, <1>4, <1>5, Replace DEF Depth, Top
<1>7. \A k \in 1 .. Depth :
        /\ stack'[k].left = stack[k].left /\ stack'[k].right = stack[k].right
        /\ stack'[k].partition_index = stack[k].partition_index
        /\ Pending(stack'[k]) = Pending(stack[k])
        /\ k < Depth => stack'[k] = stack[k]
  BY <1>1, <1>2, <1>4, <1>6 DEF Top, Pending
<1>8. TypeOK' /\ Positions' = Positions
  <2>1. \A k \in 1 .. Depth' : stack'[k].left <= stack'[k].right + 1
    BY <1>6, <1>7 DEF IInv, TypeOK
  <2>2. idx' \in Int /\ i' \in Int /\ j' \in Int
    BY <1>1, <1>2 DEF IInv, TypeOK
  <2>3. QED
    BY <1>1, <1>2, <1>6, <2>1, <2>2, TypeAgain
<1>9. LoopInv'
  <2>1. Top.right \in Positions
    BY <1>1, <1>2 DEF Frame
  <2>2. array[Top.right] \in Positions
    BY <1>1, <1>2, <2>1
  <2>3. QED
    BY <1>1, <1>2, <1>4, <1>6, <1>8, <2>1, <2>2 DEF LoopInv
<1>10. CallersWait'
  BY <1>1, <1>2, <1>4, <1>6, <1>7 DEF IInv, CallersWait
<1>11. Nested'
  <2>1. SUFFICES ASSUME NEW k \in 1 .. Depth
                 PROVE  /\ stack'[k].right - stack'[k].left + 1 <= count' - k + 1
                        /\ \A m \in (k + 1) .. Depth' : \A p \in Positions' :
                             InRange(p, stack'[m]) => InCall(p, stack'[k])
    BY <1>6 DEF Nested
  <2>2. k \in 1 .. Depth
    OBVIOUS
  <2>3. stack'[k].right - stack'[k].left + 1 <= count' - k + 1
    BY <1>2, <1>7, <2>2 DEF IInv, Nested
  <2>4. ASSUME NEW m \in (k + 1) .. Depth', NEW p \in Positions', InRange(p, stack'[m])
        PROVE  InCall(p, stack'[k])
    <3>1. m \in (k + 1) .. Depth /\ m \in 1 .. Depth /\ k < Depth
      BY <1>1, <1>6, <2>2
    <3>2. InRange(p, stack[m])
      BY <1>7, <2>4, <3>1 DEF InRange
    <3>3. QED
      BY <1>7, <1>8, <2>2, <3>1, <3>2 DEF IInv, Nested
  <2>5. QED
    BY <2>3, <2>4
<1>12. \A w \in Positions : \E p \in Positions : array'[p] # NULL /\ text[array'[p]] = text[w]
  BY <1>1, <1>2 DEF IInv, OneOfEachLeft
<1>13. \A p, q \in Positions : (p < q /\ array'[p] # NULL /\ array'[q] # NULL) =>
         \/ text[array'[p]] < text[array'[q]]
         \/ \E k \in 1 .. Depth' : p \in Pending(stack'[k]) /\ q \in Pending(stack'[k])
  <2>1. \A p, q \in Positions : (p < q /\ array[p] # NULL /\ array[q] # NULL) =>
           \/ text[array[p]] < text[array[q]]
           \/ \E k \in 1 .. Depth : p \in Pending(stack[k]) /\ q \in Pending(stack[k])
    BY <1>1 DEF IInv, OrderedButPending
  <2>2. \A k \in 1 .. Depth' : k \in 1 .. Depth /\ Pending(stack'[k]) = Pending(stack[k])
    BY <1>6, <1>7
  <2>3. QED
    BY <1>2, <1>6, <2>1, <2>2
<1>14. phase' = "sorting"
  BY <1>1, <1>2
<1>15. QED
  BY <1>1, <1>2, <1>6, <1>8, <1>9, <1>10, <1>11, <1>12, <1>13, <1>14, SortingAgain

LEMMA CompareKeepsIInv == IInv /\ Compare => IInv'
<1> SUFFICES ASSUME IInv, Compare PROVE IInv'
  OBVIOUS
<1>1. /\ Depth \in Nat /\ Depth > 0
      /\ stack \in Seq(Frame) /\ stack # <<>>
      /\ Top \in Frame /\ Top.left \in Int /\ Top.right \in Int
      /\ phase = "sorting" /\ count \in Nat /\ count > 1
      /\ Positions = 0 .. (count - 1) /\ Left = Positions
      /\ array \in [Positions -> Positions \cup {NULL}] /\ NULL \notin Positions
      /\ \A p \in Positions : text[p] \in Int
  BY StackFacts, DataFacts DEF Compare
<1>2. /\ count' = count /\ text' = text /\ phase' = phase /\ stack' = stack
      /\ pivot' = pivot /\ j' = j /\ i' = i + 1
      /\ Top.at = "partitioning" /\ i < Top.right
  BY DEF Compare
<1>3. Depth' = Depth /\ Top' = Top /\ Positions' = Positions
  BY <1>2 DEF Depth, Top, Positions
<1>4. /\ Top.left <= idx /\ idx <= i /\ Top.right \in Positions
      /\ array[Top.right] = pivot /\ pivot \in Positions
      /\ \A p \in Top.left .. (idx - 1) : array[p] = NULL \/ text[array[p]] < text[pivot]
      /\ \A p \in idx .. (i - 1) : array[p] # NULL /\ text[array[p]] > text[pivot]
      /\ idx \in Int /\ i \in Int /\ j \in Int /\ Top.left >= 0
  BY <1>1, <1>2 DEF IInv, LoopInv, TypeOK, Frame
<1>5. /\ idx \in Positions /\ i \in Positions /\ InRange(idx, Top) /\ InRange(i, Top)
  <2>1. Top.right <= count - 1
    BY <1>1, <1>4
  <2>2. idx >= 0 /\ idx <= count - 1 /\ i >= 0 /\ i <= count - 1
    BY <1>1, <1>2, <1>4, <2>1
  <2>3. QED
    BY <1>1, <1>2, <1>4, <2>2 DEF InRange
<1>6. array[i] = NULL \/ (array[i] \in Positions /\ text[array[i]] \in Int)
  BY <1>1, <1>5
<1>7. /\ Rewritten(array') /\ Survive(array') /\ LoopInv'
      /\ idx' \in Int
  <2>1. CASE array[i] # NULL /\ text[array[i]] > text[pivot]
    <3>1. array' = array /\ idx' = idx
      BY <2>1 DEF Compare
    <3>2. Rewritten(array')
      BY <1>1, <3>1 DEF Rewritten
    <3>3. Survive(array')
      BY <3>1 DEF Survive
    <3>4. \A p \in idx .. i : p \in idx .. (i - 1) \/ p = i
      BY <1>4
    <3>5. LoopInv'
      <4>1. i' = i + 1 /\ i' - 1 = i /\ idx <= i' /\ i' <= Top.right
        BY <1>1, <1>2, <1>4
      <4>2. \A p \in idx .. i : array[p] # NULL /\ text[array[p]] > text[pivot]
        BY <1>4, <2>1, <3>4
      <4>3. QED
        BY <1>2, <1>3, <1>4, <3>1, <4>1, <4>2 DEF LoopInv
    <3>6. QED
      BY <1>4, <3>1, <3>2, <3>3, <3>5
  <2>2. CASE ~(array[i] # NULL /\ text[array[i]] > text[pivot])
    <3> DEFINE a == Mark(array, i)
    <3>1. array' = swap(a, idx, i) /\ idx' = idx + 1
      BY <2>2 DEF Compare
    <3>2. /\ a \in {array, [array EXCEPT ![i] = NULL]}
          /\ a[i] = NULL \/ (a[i] = array[i] /\ text[a[i]] < text[pivot])
          /\ a[i] = NULL => array[i] = NULL \/ text[array[i]] = text[pivot]
      <4>1. CASE array[i] # NULL /\ text[array[i]] = text[pivot]
        BY <1>1, <1>5, <4>1 DEF Mark
      <4>2. CASE ~(array[i] # NULL /\ text[array[i]] = text[pivot])
        <5>1. a = array
          BY <4>2 DEF Mark
        <5>2. array[i] = NULL \/ text[array[i]] < text[pivot]
          BY <1>1, <1>4, <1>6, <2>2, <4>2
        <5>3. QED
          BY <5>1, <5>2
      <4>3. QED
        BY <4>1, <4>2
    <3> HIDE DEF a
    <3>3. /\ Rewritten(array')
          /\ array'[idx] = a[i]
          /\ idx # i => array'[i] = array[idx]
          /\ \A p \in Positions : p # idx /\ p # i => array'[p] = array[p]
      <4>1. a \in {array, [array EXCEPT ![i] = NULL]} /\ array' = swap(a, idx, i) /\ stack # <<>>
        BY <1>1, <3>1, <3>2
      <4>2. Rewritten(array') /\ Swapped(array', a, idx, i)
        BY <1>5, <4>1, SwapFacts
      <4>3. \A p \in Positions : p # i => a[p] = array[p]
        BY <1>1, <4>1
      <4>4. QED
        BY <1>5, <4>2, <4>3 DEF Swapped
    <3>4. Top.right # i /\ Top.right # idx /\ array'[Top.right] = pivot
      BY <1>2, <1>4, <3>3
    <3>5. Survive(array')
      <4>1. SUFFICES ASSUME NEW p \in Positions, array[p] # NULL
                     PROVE  \E q \in Positions : array'[q] # NULL /\ text[array'[q]] = text[array[p]]
        BY DEF Survive
      <4>2. CASE p = i /\ a[i] = NULL
        <5>1. text[array[p]] = text[pivot] /\ pivot # NULL
          BY <1>1, <1>4, <3>2, <4>1, <4>2
        <5>2. QED
          BY <1>4, <3>4, <5>1
      <4>3. CASE p = i /\ a[i] # NULL
        BY <1>5, <3>2, <3>3, <4>1, <4>3
      <4>4. CASE p = idx /\ p # i
        BY <1>5, <3>3, <4>1, <4>4
      <4>5. CASE p # idx /\ p # i
        BY <3>3, <4>1, <4>5
      <4>6. QED
        BY <4>2, <4>3, <4>4, <4>5
    <3>6. \A p \in Top.left .. idx : array'[p] = NULL \/ text[array'[p]] < text[pivot]
      <4>1. SUFFICES ASSUME NEW p \in Top.left .. idx
                     PROVE  array'[p] = NULL \/ text[array'[p]] < text[pivot]
        OBVIOUS
      <4>2. CASE p = idx
        BY <3>2, <3>3, <4>2
      <4>3. CASE p # idx
        <5>1. p \in Positions /\ p # i /\ p \in Top.left .. (idx - 1)
          BY <1>1, <1>4, <1>5, <4>3
        <5>2. QED
          BY <1>4, <3>3, <4>3, <5>1
      <4>4. QED
        BY <4>2, <4>3
    <3>7. \A p \in (idx + 1) .. i : array'[p] # NULL /\ text[array'[p]] > text[pivot]
      <4>1. SUFFICES ASSUME NEW p \in (idx + 1) .. i
                     PROVE  array'[p] # NULL /\ text[array'[p]] > text[pivot]
        OBVIOUS
      <4>2. CASE p = i
        <5>1. idx \in idx .. (i - 1) /\ idx # i
          BY <1>1, <1>4, <4>2
        <5>2. QED
          BY <1>4, <3>3, <4>2, <5>1
      <4>3. CASE p # i
        <5>1. p \in Positions /\ p # idx /\ p \in idx .. (i - 1)
          BY <1>1, <1>4, <1>5, <4>3
        <5>2. QED
          BY <1>4, <3>3, <4>3, <5>1
      <4>4. QED
        BY <4>2, <4>3
    <3>8. LoopInv'
      <4>1. idx' = idx + 1 /\ i' = i + 1 /\ idx' - 1 = idx /\ i' - 1 = i
        BY <1>2, <1>4, <3>1
      <4>2. Top.left <= idx' /\ idx' <= i' /\ i' <= Top.right
        BY <1>1, <1>2, <1>4, <4>1
      <4>3. QED
        BY <1>2, <1>3, <1>4, <3>4, <3>6, <3>7, <4>1, <4>2 DEF LoopInv
    <3>9. QED
      BY <1>4, <3>1, <3>3, <3>5, <3>8
  <2>3. QED
    BY <2>1, <2>2
<1>8. TypeOK'
  <2>1. array' \in [Positions -> Positions \cup {NULL}]
    BY <1>7 DEF Rewritten
  <2>2. stack' \in Seq(Frame) /\ \A k \in 1 .. Depth' : stack'[k].left <= stack'[k].right + 1
    BY <1>2, <1>3 DEF IInv, TypeOK
  <2>3. idx' \in Int /\ i' \in Int /\ j' \in Int
    BY <1>2, <1>4, <1>7
  <2>4. QED
    BY <1>1, <1>2, <2>1, <2>2, <2>3, TypeAgain
<1>9. CallersWait' /\ Nested'
  BY <1>2, <1>3 DEF IInv, CallersWait, Nested
<1>10. \A w \in Positions : \E p \in Positions : array'[p] # NULL /\ text[array'[p]] = text[w]
  BY <1>1, <1>7, WordsSurvive
<1>11. \A p, q \in Positions : (p < q /\ array'[p] # NULL /\ array'[q] # NULL) =>
         \/ text[array'[p]] < text[array'[q]]
         \/ \E k \in 1 .. Depth' : p \in Pending(stack'[k]) /\ q \in Pending(stack'[k])
  <2>1. SUFFICES ASSUME NEW p \in Positions, NEW q \in Positions, p < q,
                        array'[p] # NULL, array'[q] # NULL
                 PROVE  \/ text[array'[p]] < text[array'[q]]
                        \/ \E k \in 1 .. Depth : p \in Pending(stack[k]) /\ q \in Pending(stack[k])
    BY <1>2, <1>3
  <2>2. CASE InRange(p, Top) /\ InRange(q, Top)
    <3>1. p \in Pending(Top) /\ q \in Pending(Top)
      BY <1>1, <1>2, <2>2 DEF Pending, InRange
    <3>2. QED
      BY <1>1, <3>1 DEF Top
  <2>3. CASE ~(InRange(p, Top) /\ InRange(q, Top))
    <3>1. InOrder(array', p, q, Depth - 1)
      BY <1>1, <1>2, <1>7, <2>1, <2>3, OutsideStaysOrdered
    <3>2. \A k \in 1 .. (Depth - 1) : k \in 1 .. Depth
      BY <1>1
    <3>3. QED
      BY <2>1, <3>1, <3>2 DEF InOrder
  <2>4. QED
    BY <2>2, <2>3
<1>12. QED
  BY <1>1, <1>2, <1>3, <1>7, <1>8, <1>9, <1>10, <1>11, SortingAgain


(***************************************************************************)
(* A recursive call: the caller's activation becomes f, and c is its       *)
(* callee's.                                                               *)
(***************************************************************************)
CallMade(f, c) ==
  /\ f \in Frame /\ c \in Frame
  /\ f.left = Top.left /\ f.right = Top.right /\ f.at \in {"left", "right"}
  /\ f.left <= f.partition_index /\ f.partition_index <= f.right /\ f.left < f.right
  /\ c.at = "entered" /\ c.left <= c.right + 1
  /\ c.right - c.left + 1 <= Top.right - Top.left
  /\ \A p \in Positions : InRange(p, c) => InCall(p, f) /\ InRange(p, Top)

LEMMA CallOnStack ==
  ASSUME IInv, stack # <<>>, NEW f, NEW c, CallMade(f, c),
         stack' = Append([stack EXCEPT ![Depth] = f], c),
         count' = count, text' = text
  PROVE  /\ stack' \in Seq(Frame) /\ stack' # <<>> /\ Depth' = Depth + 1
         /\ stack'[Depth + 1] = c /\ stack'[Depth] = f
         /\ \A k \in 1 .. (Depth - 1) : stack'[k] = stack[k]
         /\ \A k \in 1 .. Depth' : stack'[k].left <= stack'[k].right + 1
         /\ CallersWait' /\ Nested' /\ LoopInv'
<1>1. /\ Depth \in Nat /\ Depth > 0 /\ Depth = Len(stack)
      /\ stack \in Seq(Frame)
      /\ Top.left \in Int /\ Top.right \in Int /\ count \in Nat
      /\ \A p \in Positions : p \in Int
  BY StackFacts, DataFacts
<1>2. Positions' = Positions
  BY DEF Positions
<1>3. /\ f \in Frame /\ c \in Frame
      /\ f.left = Top.left /\ f.right = Top.right /\ f.at \in {"left", "right"}
      /\ f.left <= f.partition_index /\ f.partition_index <= f.right /\ f.left < f.right
      /\ c.at = "entered" /\ c.left <= c.right + 1
      /\ c.right - c.left + 1 <= Top.right - Top.left
      /\ \A p \in Positions : InRange(p, c) => InCall(p, f) /\ InRange(p, Top)
      /\ c.left \in Int /\ c.right \in Int
  BY <1>1 DEF CallMade, Frame
<1>4. /\ stack' \in Seq(Frame) /\ stack' # <<>> /\ Depth' = Depth + 1
      /\ stack'[Depth + 1] = c /\ Top' = c /\ stack'[Depth] = f
      /\ \A k \in 1 .. (Depth - 1) : stack'[k] = stack[k]
  <2>1. /\ stack' \in Seq(Frame) /\ stack' # <<>> /\ Len(stack') = Depth + 1
        /\ stack'[Depth + 1] = c /\ stack'[Depth] = f
        /\ \A k \in 1 .. (Depth - 1) : stack'[k] = stack[k]
    BY <1>1, <1>3, ReplaceAndPush
  <2>2. Depth' = Len(stack') /\ Top' = stack'[Depth']
    BY DEF Depth, Top
  <2>3. QED
    BY <2>1, <2>2, Zenon
<1>5. \A k \in 1 .. Depth' : stack'[k].left <= stack'[k].right + 1
  <2>1. SUFFICES ASSUME NEW k \in 1 .. (Depth + 1)
                 PROVE  stack'[k].left <= stack'[k].right + 1
    BY <1>4
  <2>2. CASE k = Depth + 1
    BY <1>1, <1>3, <1>4, <2>2
  <2>3. CASE k = Depth
    BY <1>1, <1>3, <1>4, <2>3
  <2>4. CASE k \in 1 .. (Depth - 1)
    BY <1>1, <1>4, <2>4 DEF IInv, TypeOK
  <2>5. QED
    BY <1>1, <2>2, <2>3, <2>4
<1>6. LoopInv'
  BY <1>3, <1>4 DEF LoopInv
<1>7. CallersWait'
  <2>1. SUFFICES ASSUME NEW k \in 1 .. (Depth + 1)
                 PROVE  /\ k < Depth + 1 => stack'[k].at \in {"left", "right"}
                        /\ stack'[k].at # "entered" => stack'[k].left < stack'[k].right
                        /\ stack'[k].at \in {"left", "right"} =>
                             /\ stack'[k].left <= stack'[k].partition_index
                             /\ stack'[k].partition_index <= stack'[k].right
    BY <1>4 DEF CallersWait
  <2>2. CASE k = Depth + 1
    BY <1>1, <1>3, <1>4, <2>2
  <2>3. CASE k = Depth
    BY <1>1, <1>3, <1>4, <2>3
  <2>4. CASE k \in 1 .. (Depth - 1)
    <3>1. k \in 1 .. Depth /\ k < Depth
      BY <1>1, <2>4
    <3>2. QED
      BY <1>4, <2>4, <3>1 DEF IInv, CallersWait
  <2>5. QED
    BY <1>1, <2>2, <2>3, <2>4
<1>8. Nested'
  <2>1. SUFFICES ASSUME NEW k \in 1 .. (Depth + 1)
                 PROVE  /\ stack'[k].right - stack'[k].left + 1 <= count - k + 1
                        /\ \A m \in (k + 1) .. (Depth + 1) : \A p \in Positions :
                             InRange(p, stack'[m]) => InCall(p, stack'[k])
    BY <1>2, <1>4 DEF Nested
  <2>2. Top.right - Top.left + 1 <= count - Depth + 1
    BY <1>1 DEF IInv, Nested, Top
  <2>3. CASE k = Depth + 1
    <3>1. stack'[k] = c /\ (k + 1) .. (Depth + 1) = {}
      BY <1>1, <1>4, <2>3
    <3>2. QED
      BY <1>1, <1>3, <2>2, <2>3, <3>1
  <2>4. CASE k = Depth
    <3>1. \A m \in (k + 1) .. (Depth + 1) : stack'[m] = c
      BY <1>1, <1>4, <2>4
    <3>2. stack'[k].right - stack'[k].left + 1 <= count - k + 1
      BY <1>1, <1>3, <1>4, <2>2, <2>4
    <3>3. QED
      BY <1>3, <1>4, <2>4, <3>1, <3>2
  <2>5. CASE k \in 1 .. (Depth - 1)
    <3>1. k \in 1 .. Depth /\ stack'[k] = stack[k] /\ Depth \in (k + 1) .. Depth
      BY <1>1, <1>4, <2>5
    <3>2. ASSUME NEW m \in (k + 1) .. (Depth + 1), NEW p \in Positions,
                 InRange(p, stack'[m])
          PROVE  InCall(p, stack[k])
      <4>1. CASE m \in (k + 1) .. (Depth - 1)
        <5>1. stack'[m] = stack[m] /\ m \in (k + 1) .. Depth
          BY <1>1, <1>4, <3>1, <4>1
        <5>2. QED
          BY <3>1, <3>2, <5>1 DEF IInv, Nested
      <4>2. CASE m \in {Depth, Depth + 1}
        <5>1. InRange(p, Top)
          BY <1>1, <1>3, <1>4, <3>2, <4>2 DEF InRange
        <5>2. QED
          BY <3>1, <5>1 DEF IInv, Nested, Top
      <4>3. Depth \in Int /\ k \in Int /\ m \in (k + 1) .. (Depth + 1)
        BY <1>1
      <4>4. m \in (k + 1) .. (Depth - 1) \/ m \in {Depth, Depth + 1}
        BY <4>3
      <4>5. QED
        BY <4>1, <4>2, <4>4, Zenon
    <3>3. stack[k].right - stack[k].left + 1 <= count - k + 1
      BY <3>1 DEF IInv, Nested
    <3>4. QED
      BY <3>1, <3>2, <3>3
  <2>6. QED
    BY <1>1, <2>3, <2>4, <2>5
<1>9. QED
  BY <1>4, <1>5, <1>6, <1>7, <1>8

(***************************************************************************)
(* partition has returned x: what is before x in the range is for the      *)
(* first call, what is behind for the second, and the word at x is in      *)
(* order with both sides.                                                  *)
(***************************************************************************)
\* partition's promise: NULL or a smaller word before x, NULL or a greater one behind.
Parted(b, x) ==
  b[x] # NULL =>
    \A p \in Positions : (InRange(p, Top) /\ b[p] # NULL) =>
      /\ p < x => text[b[p]] < text[b[x]]
      /\ p > x => text[b[p]] > text[b[x]]

\* No two words are left on the two sides of a NULL.
OneSided(b, x) ==
  b[x] = NULL => \A p \in Positions : InRange(p, Top) => p >= x

LEMMA PartitionReturned ==
  ASSUME IInv, stack # <<>>, Top.at \in {"entered", "partitioning"}, Top.left < Top.right,
         NEW x \in Positions, InRange(x, Top),
         PartitionReturns(x),
         Rewritten(array'), Survive(array'), Parted(array', x), OneSided(array', x),
         count' = count, text' = text, phase' = phase, idx' = idx, i' = i, j' = j
  PROVE  IInv'
<1> DEFINE f == [Top EXCEPT !.at = "left", !.partition_index = x]
           c == Call(Top.left, x - 1)
<1>1. /\ Depth \in Nat /\ Depth > 0 /\ Depth = Len(stack)
      /\ stack \in Seq(Frame) /\ stack # <<>>
      /\ Top \in Frame /\ Top.left \in Int /\ Top.right \in Int
      /\ phase = "sorting" /\ count \in Nat /\ count > 1
      /\ Positions = 0 .. (count - 1) /\ Left = Positions
      /\ \A p \in Positions : p \in Int /\ text[p] \in Int
  BY StackFacts, DataFacts
<1>2. /\ Top.left <= x /\ x <= Top.right /\ x \in Int
      /\ Top.left >= 0 /\ Top.right <= count - 1
  BY <1>1 DEF InRange, Frame
<1>3. /\ f \in Frame /\ f.left = Top.left /\ f.right = Top.right
      /\ f.at = "left" /\ f.partition_index = x
  <2>1. x \in 0 .. count
    BY <1>1
  <2>2. QED
    BY <1>1, <2>1 DEF Frame
<1>4. /\ c \in Frame /\ c.left = Top.left /\ c.right = x - 1
      /\ c.at = "entered" /\ c.partition_index = Top.left
  BY <1>1, <1>2 DEF Frame, Call
<1>5. stack' = Append([stack EXCEPT ![Depth] = f], c)
  BY DEF PartitionReturns, Top
<1> HIDE DEF f, c
<1>6. CallMade(f, c)
  <2>1. \A p \in Positions : InRange(p, c) => InCall(p, f) /\ InRange(p, Top)
    BY <1>1, <1>2, <1>3, <1>4 DEF InRange, InCall
  <2>2. /\ f.left <= f.partition_index /\ f.partition_index <= f.right /\ f.left < f.right
        /\ c.left <= c.right + 1
        /\ c.right - c.left + 1 <= Top.right - Top.left
    BY <1>1, <1>2, <1>3, <1>4
  <2>3. QED
    BY <1>3, <1>4, <2>1, <2>2 DEF CallMade
<1>7. /\ stack' \in Seq(Frame) /\ stack' # <<>> /\ Depth' = Depth + 1
      /\ stack'[Depth + 1] = c /\ stack'[Depth] = f
      /\ \A k \in 1 .. (Depth - 1) : stack'[k] = stack[k]
      /\ \A k \in 1 .. Depth' : stack'[k].left <= stack'[k].right + 1
      /\ CallersWait' /\ Nested' /\ LoopInv'
  BY <1>1, <1>5, <1>6, CallOnStack
<1>8. phase' = "sorting"
  BY <1>1
<1>9. TypeOK' /\ Positions' = Positions
  <2>1. array' \in [Positions -> Positions \cup {NULL}]
    BY DEF Rewritten
  <2>2. idx' \in Int /\ i' \in Int /\ j' \in Int
    BY DEF IInv, TypeOK
  <2>3. QED
    BY <1>1, <1>7, <2>1, <2>2, TypeAgain
<1>10. \A w \in Positions : \E p \in Positions : array'[p] # NULL /\ text[array'[p]] = text[w]
  BY <1>1, WordsSurvive
<1>11. \A p, q \in Positions : (p < q /\ array'[p] # NULL /\ array'[q] # NULL) =>
         \/ text[array'[p]] < text[array'[q]]
         \/ \E k \in 1 .. Depth' : p \in Pending(stack'[k]) /\ q \in Pending(stack'[k])
  <2>1. SUFFICES ASSUME NEW p \in Positions, NEW q \in Positions, p < q,
                        array'[p] # NULL, array'[q] # NULL
                 PROVE  \/ text[array'[p]] < text[array'[q]]
                        \/ \E k \in 1 .. (Depth + 1) :
                             p \in Pending(stack'[k]) /\ q \in Pending(stack'[k])
    BY <1>7
  <2>2. CASE ~(InRange(p, Top) /\ InRange(q, Top))
    <3>1. InOrder(array', p, q, Depth - 1)
      BY <1>1, <2>1, <2>2, OutsideStaysOrdered
    <3>2. \A k \in 1 .. (Depth - 1) : k \in 1 .. (Depth + 1) /\ stack'[k] = stack[k]
      BY <1>1, <1>7
    <3>3. QED
      BY <2>1, <3>1, <3>2 DEF InOrder
  <2>3. CASE InRange(p, Top) /\ InRange(q, Top)
    <3>1. p \in Int /\ q \in Int /\ Top.left <= p /\ q <= Top.right
      BY <1>1, <2>3 DEF InRange
    <3>2. CASE q < x
      <4>1. p \in Pending(c) /\ q \in Pending(c)
        BY <1>1, <1>2, <1>4, <2>1, <3>1, <3>2 DEF Pending
      <4>2. Depth + 1 \in 1 .. (Depth + 1)
        BY <1>1
      <4>3. QED
        BY <1>7, <4>1, <4>2
    <3>3. CASE p > x
      <4>1. p \in Pending(f) /\ q \in Pending(f)
        BY <1>1, <1>2, <1>3, <2>1, <3>1, <3>3 DEF Pending
      <4>2. Depth \in 1 .. (Depth + 1)
        BY <1>1
      <4>3. QED
        BY <1>7, <4>1, <4>2
    <3>4. CASE p <= x /\ x <= q
      <4>1. array'[x] # NULL
        <5>1. SUFFICES ASSUME array'[x] = NULL PROVE FALSE
          OBVIOUS
        <5>2. p >= x
          BY <2>3, <5>1 DEF OneSided
        <5>3. p = x
          BY <1>2, <3>1, <3>4, <5>2
        <5>4. QED
          BY <2>1, <5>1, <5>3
      <4>2. \A r \in Positions : array'[r] # NULL => text[array'[r]] \in Int
        BY <1>1 DEF Rewritten
      <4>3. p < x => text[array'[p]] < text[array'[x]]
        BY <2>1, <2>3, <4>1 DEF Parted
      <4>4. q > x => text[array'[q]] > text[array'[x]]
        BY <2>1, <2>3, <4>1 DEF Parted
      <4>5. QED
        BY <1>2, <2>1, <3>1, <3>4, <4>1, <4>2, <4>3, <4>4
    <3>5. QED
      BY <1>2, <3>1, <3>2, <3>3, <3>4
  <2>4. QED
    BY <2>2, <2>3
<1>12. QED
  BY <1>1, <1>7, <1>8, <1>9, <1>10, <1>11, SortingAgain

\* An exchange loses no word.
LEMMA SwapSurvives ==
  ASSUME NEW b, NEW x \in Positions, NEW y \in Positions, Swapped(b, array, x, y)
  PROVE  Survive(b)
<1>1. SUFFICES ASSUME NEW p \in Positions, array[p] # NULL
               PROVE  \E q \in Positions : b[q] # NULL /\ text[b[q]] = text[array[p]]
  BY DEF Survive
<1>2. /\ b[x] = array[y]
      /\ x # y => b[y] = array[x]
      /\ \A r \in Positions : r # x /\ r # y => b[r] = array[r]
  BY DEF Swapped
<1>3. CASE p = x
  BY <1>1, <1>2, <1>3
<1>4. CASE p = y
  BY <1>1, <1>2, <1>4
<1>5. CASE p # x /\ p # y
  BY <1>1, <1>2, <1>5
<1>6. QED
  BY <1>3, <1>4, <1>5

LEMMA NullPivotKeepsIInv == IInv /\ NullPivot => IInv'
<1> SUFFICES ASSUME IInv, NullPivot PROVE IInv'
  OBVIOUS
<1>1. /\ stack # <<>> /\ Top.at = "entered" /\ Top.left < Top.right
      /\ array[Top.right] = NULL
      /\ array' = swap(array, Top.left, Top.right)
      /\ PartitionReturns(Top.left)
      /\ text' = text /\ count' = count /\ phase' = phase
      /\ idx' = idx /\ i' = i /\ j' = j
  BY DEF NullPivot
<1>2. /\ Top \in Frame /\ Top.left \in Int /\ Top.right \in Int
      /\ Positions = 0 .. (count - 1) /\ count \in Nat
  BY <1>1, StackFacts
<1>3. /\ Top.left \in Positions /\ Top.right \in Positions
      /\ InRange(Top.left, Top) /\ InRange(Top.right, Top)
  BY <1>1, <1>2 DEF Frame, InRange
<1>4. array \in {array, [array EXCEPT ![Top.right] = NULL]}
  OBVIOUS
<1>5. Rewritten(array') /\ Swapped(array', array, Top.left, Top.right)
  BY <1>1, <1>3, <1>4, SwapFacts
<1>6. Survive(array')
  BY <1>3, <1>5, SwapSurvives
<1>7. array'[Top.left] = NULL
  BY <1>1, <1>5 DEF Swapped
<1>8. Parted(array', Top.left) /\ OneSided(array', Top.left)
  BY <1>2, <1>7 DEF Parted, OneSided, InRange
<1>9. Top.at \in {"entered", "partitioning"}
  BY <1>1
<1>10. QED
  BY <1>1, <1>3, <1>5, <1>6, <1>8, <1>9, PartitionReturned

LEMMA PlacePivotKeepsIInv == IInv /\ PlacePivot => IInv'
<1> SUFFICES ASSUME IInv, PlacePivot PROVE IInv'
  OBVIOUS
<1>1. /\ stack # <<>> /\ Top.at = "partitioning" /\ i >= Top.right
      /\ array' = swap(array, idx, Top.right)
      /\ PartitionReturns(idx)
      /\ text' = text /\ count' = count /\ phase' = phase
      /\ idx' = idx /\ i' = i /\ j' = j
  BY DEF PlacePivot
<1>2. /\ Top \in Frame /\ Top.left \in Int /\ Top.right \in Int
      /\ Positions = 0 .. (count - 1) /\ count \in Nat
      /\ Depth \in Nat /\ Depth > 0
      /\ NULL \notin Positions
      /\ \A p \in Positions : p \in Int
  BY <1>1, StackFacts, DataFacts
<1>3. /\ Top.left <= idx /\ idx <= i /\ i = Top.right /\ Top.right \in Positions
      /\ array[Top.right] = pivot /\ pivot \in Positions
      /\ \A p \in Top.left .. (idx - 1) : array[p] = NULL \/ text[array[p]] < text[pivot]
      /\ \A p \in idx .. (i - 1) : array[p] # NULL /\ text[array[p]] > text[pivot]
      /\ idx \in Int /\ Top.left >= 0
  <2>1. i \in Int /\ i <= Top.right
    BY <1>1 DEF IInv, LoopInv, TypeOK
  <2>2. i = Top.right
    BY <1>1, <1>2, <2>1
  <2>3. QED
    BY <1>1, <1>2, <2>2 DEF IInv, LoopInv, TypeOK, Frame
<1>4. Top.left < Top.right
  BY <1>1, <1>2 DEF IInv, CallersWait, Top
<1>5. /\ idx \in Positions /\ InRange(idx, Top) /\ InRange(Top.right, Top)
  BY <1>2, <1>3, <1>4 DEF InRange
<1>6. array \in {array, [array EXCEPT ![Top.right] = NULL]}
  OBVIOUS
<1>7. Rewritten(array') /\ Swapped(array', array, idx, Top.right)
  BY <1>1, <1>3, <1>5, <1>6, SwapFacts
<1>8. Survive(array')
  BY <1>3, <1>5, <1>7, SwapSurvives
<1>9. /\ array'[idx] = pivot /\ pivot # NULL
      /\ idx # Top.right => array'[Top.right] = array[idx]
      /\ \A p \in Positions : p # idx /\ p # Top.right => array'[p] = array[p]
  BY <1>2, <1>3, <1>7 DEF Swapped
<1>10. Parted(array', idx)
  <2>1. SUFFICES ASSUME NEW p \in Positions, InRange(p, Top), array'[p] # NULL
                 PROVE  /\ p < idx => text[array'[p]] < text[pivot]
                        /\ p > idx => text[array'[p]] > text[pivot]
    BY <1>9 DEF Parted
  <2>2. p \in Int /\ Top.left <= p /\ p <= Top.right
    BY <1>2, <2>1 DEF InRange
  <2>3. ASSUME p < idx PROVE text[array'[p]] < text[pivot]
    <3>1. p \in Top.left .. (idx - 1) /\ p # idx /\ p # Top.right
      BY <1>2, <1>3, <2>2, <2>3
    <3>2. QED
      BY <1>3, <1>9, <2>1, <3>1
  <2>4. ASSUME p > idx PROVE text[array'[p]] > text[pivot]
    <3>1. CASE p = Top.right
      <4>1. idx \in idx .. (i - 1) /\ idx # Top.right
        BY <1>2, <1>3, <2>2, <2>4, <3>1
      <4>2. QED
        BY <1>3, <1>9, <3>1, <4>1
    <3>2. CASE p # Top.right
      <4>1. p \in idx .. (i - 1) /\ p # idx
        BY <1>2, <1>3, <2>2, <2>4, <3>2
      <4>2. QED
        BY <1>3, <1>9, <3>2, <4>1
    <3>3. QED
      BY <3>1, <3>2
  <2>5. QED
    BY <2>3, <2>4
<1>11. OneSided(array', idx)
  BY <1>9 DEF OneSided
<1>12. Top.at \in {"entered", "partitioning"}
  BY <1>1
<1>13. QED
  BY <1>1, <1>4, <1>5, <1>7, <1>8, <1>10, <1>11, <1>12, PartitionReturned

LEMMA SecondCallKeepsIInv == IInv /\ SecondCall => IInv'
<1> SUFFICES ASSUME IInv, SecondCall PROVE IInv'
  OBVIOUS
<1> DEFINE f == [Top EXCEPT !.at = "right"]
           c == Call(Top.partition_index + 1, Top.right)
<1>1. /\ Depth \in Nat /\ Depth > 0
      /\ stack \in Seq(Frame) /\ stack # <<>>
      /\ Top \in Frame /\ Top.left \in Int /\ Top.right \in Int
      /\ Top.partition_index \in Int
      /\ phase = "sorting" /\ count \in Nat /\ count > 1
      /\ Positions = 0 .. (count - 1) /\ Left = Positions
      /\ array \in [Positions -> Positions \cup {NULL}]
      /\ \A p \in Positions : p \in Int
  BY StackFacts, DataFacts DEF SecondCall
<1>2. /\ count' = count /\ text' = text /\ phase' = phase /\ array' = array
      /\ idx' = idx /\ i' = i /\ j' = j
      /\ Top.at = "left"
  BY DEF SecondCall
<1>3. /\ Top.left <= Top.partition_index /\ Top.partition_index <= Top.right
      /\ Top.left < Top.right /\ Top.left >= 0 /\ Top.right < count
  <2>1. /\ Top.left <= Top.partition_index /\ Top.partition_index <= Top.right
        /\ Top.left < Top.right
    BY <1>1, <1>2 DEF IInv, CallersWait, Top
  <2>2. QED
    BY <1>1, <2>1 DEF Frame
<1>4. /\ f \in Frame /\ f.left = Top.left /\ f.right = Top.right
      /\ f.at = "right" /\ f.partition_index = Top.partition_index
  BY <1>1 DEF Frame
<1>5. /\ c \in Frame /\ c.left = Top.partition_index + 1 /\ c.right = Top.right
      /\ c.at = "entered"
  BY <1>1, <1>3 DEF Frame, Call
<1>6. stack' = Append([stack EXCEPT ![Depth] = f], c)
  BY DEF SecondCall, Top
<1> HIDE DEF f, c
<1>7. CallMade(f, c)
  <2>1. \A p \in Positions : InRange(p, c) => InCall(p, f) /\ InRange(p, Top)
    BY <1>1, <1>3, <1>4, <1>5 DEF InRange, InCall
  <2>2. /\ f.left <= f.partition_index /\ f.partition_index <= f.right /\ f.left < f.right
        /\ c.left <= c.right + 1
        /\ c.right - c.left + 1 <= Top.right - Top.left
    BY <1>1, <1>3, <1>4, <1>5
  <2>3. QED
    BY <1>4, <1>5, <2>1, <2>2 DEF CallMade
<1>8. /\ stack' \in Seq(Frame) /\ stack' # <<>> /\ Depth' = Depth + 1
      /\ stack'[Depth + 1] = c /\ stack'[Depth] = f
      /\ \A k \in 1 .. (Depth - 1) : stack'[k] = stack[k]
      /\ \A k \in 1 .. Depth' : stack'[k].left <= stack'[k].right + 1
      /\ CallersWait' /\ Nested' /\ LoopInv'
  BY <1>1, <1>2, <1>6, <1>7, CallOnStack
<1>9. phase' = "sorting"
  BY <1>1, <1>2
<1>10. TypeOK' /\ Positions' = Positions
  <2>1. array' \in [Positions -> Positions \cup {NULL}]
    BY <1>1, <1>2
  <2>2. idx' \in Int /\ i' \in Int /\ j' \in Int
    BY <1>2 DEF IInv, TypeOK
  <2>3. QED
    BY <1>1, <1>2, <1>8, <1>9, <2>1, <2>2, TypeAgain
<1>11. \A w \in Positions : \E p \in Positions : array'[p] # NULL /\ text[array'[p]] = text[w]
  BY <1>1, <1>2 DEF IInv, OneOfEachLeft
<1>12. \A p, q \in Positions : (p < q /\ array'[p] # NULL /\ array'[q] # NULL) =>
         \/ text[array'[p]] < text[array'[q]]
         \/ \E k \in 1 .. Depth' : p \in Pending(stack'[k]) /\ q \in Pending(stack'[k])
  <2>1. SUFFICES ASSUME NEW p \in Positions, NEW q \in Positions, p < q,
                        array[p] # NULL, array[q] # NULL
                 PROVE  \/ text[array[p]] < text[array[q]]
                        \/ \E k \in 1 .. (Depth + 1) :
                             p \in Pending(stack'[k]) /\ q \in Pending(stack'[k])
    BY <1>2, <1>8
  <2>2. \/ text[array[p]] < text[array[q]]
        \/ \E k \in 1 .. Depth : p \in Pending(stack[k]) /\ q \in Pending(stack[k])
    BY <1>1, <2>1 DEF IInv, OrderedButPending
  <2>3. ASSUME NEW k \in 1 .. Depth
        PROVE  \E m \in 1 .. (Depth + 1) : Pending(stack'[m]) = Pending(stack[k])
    <3>1. CASE k = Depth
      <4>1. Pending(c) = Pending(Top)
        BY <1>2, <1>5 DEF Pending
      <4>2. Depth + 1 \in 1 .. (Depth + 1)
        BY <1>1
      <4>3. QED
        BY <1>8, <3>1, <4>1, <4>2 DEF Top
    <3>2. CASE k # Depth
      <4>1. k \in 1 .. (Depth - 1) /\ k \in 1 .. (Depth + 1)
        BY <1>1, <3>2
      <4>2. QED
        BY <1>8, <4>1
    <3>3. QED
      BY <3>1, <3>2
  <2>4. QED
    BY <2>2, <2>3
<1>13. QED
  BY <1>1, <1>2, <1>8, <1>9, <1>10, <1>11, <1>12, SortingAgain

LEMMA ReturnKeepsIInv == IInv /\ Return => IInv'
<1> SUFFICES ASSUME IInv, Return PROVE IInv'
  OBVIOUS
<1>1. /\ Depth \in Nat /\ Depth > 0 /\ Depth = Len(stack)
      /\ stack \in Seq(Frame) /\ stack # <<>>
      /\ Top.left \in Int /\ Top.right \in Int
      /\ phase = "sorting" /\ count \in Nat /\ count > 1
      /\ Positions = 0 .. (count - 1) /\ Left = Positions
      /\ array \in [Positions -> Positions \cup {NULL}]
      /\ \A p \in Positions : p \in Int
  BY StackFacts, DataFacts DEF Return
<1>2. /\ count' = count /\ text' = text /\ array' = array /\ idx' = idx
      /\ (Top.at = "entered" /\ Top.left >= Top.right) \/ Top.at = "right"
      /\ stack' = SubSeq(stack, 1, Depth - 1)
  BY DEF Return
<1>3. /\ stack' \in Seq(Frame) /\ Depth' = Depth - 1
      /\ stack' = <<>> <=> Depth = 1
      /\ \A k \in 1 .. (Depth - 1) : stack'[k] = stack[k]
  <2>1. /\ stack' \in Seq(Frame) /\ Len(stack') = Depth - 1
        /\ stack' = <<>> <=> Depth = 1
        /\ \A k \in 1 .. (Depth - 1) : stack'[k] = stack[k]
    BY ZenonT(30), <1>1, <1>2, Pop
  <2>2. Depth' = Len(stack')
    BY DEF Depth
  <2>3. QED
    BY <2>1, <2>2, Zenon
<1>4. \A k \in 1 .. (Depth - 1) : k \in 1 .. Depth /\ k < Depth
  BY <1>1
<1>5. /\ phase' = (IF Depth = 1 THEN "compacting" ELSE "sorting")
      /\ Depth = 1 => i' = 0 /\ j' = 0
      /\ i' \in Int /\ j' \in Int
  BY <1>1 DEF Return, IInv, TypeOK
<1>6. TypeOK' /\ Positions' = Positions
  <2>1. \A k \in 1 .. Depth' : stack'[k].left <= stack'[k].right + 1
    BY <1>3, <1>4 DEF IInv, TypeOK
  <2>2. phase' \in {"sorting", "compacting"} /\ phase # "returned" /\ idx' \in Int
    BY <1>1, <1>2, <1>5 DEF IInv, TypeOK
  <2>3. array' \in [Positions -> Positions \cup {NULL}]
    BY <1>1, <1>2
  <2>4. QED
    BY <1>1, <1>2, <1>3, <1>5, <2>1, <2>2, <2>3, TypeAgain
<1>7. LoopInv'
  <2>1. ASSUME stack' # <<>> PROVE Top'.at \in {"left", "right"}
    <3>1. Depth - 1 \in 1 .. (Depth - 1)
      BY <1>1, <1>3, <2>1
    <3>2. QED
      BY <1>3, <1>4, <3>1 DEF IInv, CallersWait, Top
  <2>2. QED
    BY <2>1 DEF LoopInv
<1>8. CallersWait'
  <2>1. ASSUME NEW k \in 1 .. (Depth - 1)
        PROVE  /\ stack'[k].at \in {"left", "right"}
               /\ stack'[k].at # "entered" => stack'[k].left < stack'[k].right
               /\ stack'[k].at \in {"left", "right"} =>
                    /\ stack'[k].left <= stack'[k].partition_index
                    /\ stack'[k].partition_index <= stack'[k].right
    BY <1>3, <1>4 DEF IInv, CallersWait
  <2>2. QED
    BY <1>3, <2>1 DEF CallersWait
<1>9. Nested'
  <2>1. SUFFICES ASSUME NEW k \in 1 .. (Depth - 1)
                 PROVE  /\ stack[k].right - stack[k].left + 1 <= count - k + 1
                        /\ \A m \in (k + 1) .. (Depth - 1) : \A p \in Positions :
                             InRange(p, stack'[m]) => InCall(p, stack[k])
    BY <1>2, <1>3, <1>6 DEF Nested
  <2>2. \A m \in (k + 1) .. (Depth - 1) :
           stack'[m] = stack[m] /\ m \in (k + 1) .. Depth
    BY <1>1, <1>3
  <2>3. QED
    BY <1>4, <2>2 DEF IInv, Nested
<1>10. \A w \in Positions : \E p \in Positions : array'[p] # NULL /\ text[array'[p]] = text[w]
  BY <1>1, <1>2 DEF IInv, OneOfEachLeft
<1>11. \A p, q \in Positions : (p < q /\ array'[p] # NULL /\ array'[q] # NULL) =>
         \/ text[array'[p]] < text[array'[q]]
         \/ \E k \in 1 .. Depth' : p \in Pending(stack'[k]) /\ q \in Pending(stack'[k])
  <2>1. SUFFICES ASSUME NEW p \in Positions, NEW q \in Positions, p < q,
                        array[p] # NULL, array[q] # NULL
                 PROVE  \/ text[array[p]] < text[array[q]]
                        \/ \E k \in 1 .. (Depth - 1) :
                             p \in Pending(stack'[k]) /\ q \in Pending(stack'[k])
    BY <1>2, <1>3
  <2>2. \/ text[array[p]] < text[array[q]]
        \/ \E k \in 1 .. Depth : p \in Pending(stack[k]) /\ q \in Pending(stack[k])
    BY <1>1, <2>1 DEF IInv, OrderedButPending
  <2>3. ~(p \in Pending(Top) /\ q \in Pending(Top))
    BY <1>1, <1>2, <2>1 DEF Pending
  <2>4. \A k \in 1 .. Depth : k # Depth => k \in 1 .. (Depth - 1)
    BY <1>1
  <2>5. QED
    BY <1>3, <2>2, <2>3, <2>4 DEF Top
<1>12. CASE Depth # 1
  BY <1>1, <1>2, <1>3, <1>5, <1>6, <1>7, <1>8, <1>9, <1>10, <1>11, <1>12, SortingAgain
<1>13. CASE Depth = 1
  <2>1. phase' = "compacting" /\ i' = 0 /\ j' = 0 /\ stack' = <<>>
    BY <1>3, <1>5, <1>13
  <2>2. Left' = Positions
    BY <1>1, <1>2, <2>1 DEF Left
  <2>3. OneOfEachLeft' /\ OrderedButPending'
    BY <1>2, <1>6, <1>10, <1>11, <2>2 DEF OneOfEachLeft, OrderedButPending
  <2>4. GapsClosed'
    <3>1. \A p \in Left' : ~(p < 0)
      BY <1>1, <2>2
    <3>2. QED
      BY <1>1, <1>2, <2>1, <3>1 DEF GapsClosed
  <2>5. QED
    BY <1>6, <1>7, <1>8, <1>9, <2>1, <2>3, <2>4 DEF IInv
<1>14. QED
  BY <1>12, <1>13

\* What the invariant says while the last loop runs.
LEMMA CompactingFacts ==
  ASSUME IInv, phase = "compacting"
  PROVE  /\ count \in Nat /\ Positions = 0 .. (count - 1) /\ stack = <<>> /\ Depth = 0
         /\ i \in Int /\ j \in Int /\ 0 <= j /\ j <= i /\ i <= count
         /\ Left = (0 .. (j - 1)) \cup (i .. (count - 1))
         /\ \A p \in Left : p \in Positions /\ (p < j => array[p] # NULL)
         /\ \A p, q \in Left : (p < q /\ array[p] # NULL /\ array[q] # NULL) =>
              text[array[p]] < text[array[q]]
<1>1. count \in Nat /\ Positions = 0 .. (count - 1)
  BY DataFacts
<1>2. stack = <<>>
  BY DEF IInv
<1>3. Depth = 0
  BY <1>2 DEF Depth
<1>4. i \in Int /\ j \in Int /\ 0 <= j /\ j <= i /\ i <= count
  BY DEF IInv, TypeOK, GapsClosed
<1>5. Left = (0 .. (j - 1)) \cup (i .. (count - 1))
  BY DEF Left
<1>6. \A p \in Left : p \in Positions /\ (p < j => array[p] # NULL)
  <2>1. \A p \in Left : p \in Positions
    BY <1>1, <1>4, <1>5
  <2>2. \A p \in Left : p < j => array[p] # NULL
    BY DEF IInv, GapsClosed
  <2>3. QED
    BY <2>1, <2>2
<1>7. 1 .. Depth = {}
  BY <1>3
<1>8. QED
  BY <1>1, <1>2, <1>3, <1>4, <1>5, <1>6, <1>7 DEF IInv, OrderedButPending

LEMMA CompactKeepsIInv == IInv /\ Compact => IInv'
<1> SUFFICES ASSUME IInv, Compact PROVE IInv'
  OBVIOUS
<1>1. /\ phase = "compacting" /\ i < count /\ i' = i + 1
      /\ text' = text /\ count' = count /\ phase' = phase /\ stack' = stack
      /\ idx' = idx /\ pivot' = pivot
  BY DEF Compact
<1>2. /\ count \in Nat /\ Positions = 0 .. (count - 1) /\ stack = <<>> /\ Depth = 0
      /\ i \in Int /\ j \in Int /\ 0 <= j /\ j <= i /\ i <= count
      /\ Left = (0 .. (j - 1)) \cup (i .. (count - 1))
      /\ \A p \in Left : p \in Positions /\ (p < j => array[p] # NULL)
      /\ \A p, q \in Left : (p < q /\ array[p] # NULL /\ array[q] # NULL) =>
           text[array[p]] < text[array[q]]
  BY <1>1, CompactingFacts
<1>3. array \in [Positions -> Positions \cup {NULL}] /\ i \in Left /\ i \in Positions /\ j \in Positions
  BY <1>1, <1>2, DataFacts
<1>4. \A w \in Positions : \E p \in Left : array[p] # NULL /\ text[array[p]] = text[w]
  BY DEF IInv, OneOfEachLeft
<1>5. \* Every position left holds what one that was left before held, in the same order.
      /\ array' \in [Positions -> Positions \cup {NULL}]
      /\ j' \in Int /\ 0 <= j' /\ j' <= i' /\ i' <= count
      /\ Left' = (0 .. (j' - 1)) \cup ((i + 1) .. (count - 1))
      /\ \A p \in Left' : p < j' => array'[p] # NULL
      /\ \A p \in Left' : \E r \in Left :
           /\ array'[p] = array[r]
           /\ p = j => r = i
           /\ p # j => r = p
      /\ \A r \in Left : array[r] # NULL => \E p \in Left' : array'[p] = array[r]
  <2>1. Left' = (0 .. (j' - 1)) \cup ((i + 1) .. (count - 1))
    BY <1>1 DEF Left
  <2>2. CASE array[i] # NULL
    <3>1. array' = [array EXCEPT ![j] = array[i]] /\ j' = j + 1
      BY <2>2 DEF Compact
    <3>2. /\ array' \in [Positions -> Positions \cup {NULL}]
          /\ array'[j] = array[i]
          /\ \A p \in Positions : p # j => array'[p] = array[p]
      BY <1>3, <3>1
    <3>3. \A p \in Left' : p \in Positions /\ (p = j \/ p \in Left)
      BY <1>1, <1>2, <2>1, <3>1
    <3>4. \A r \in Left : r # i => r \in Left' /\ r # j /\ r \in Positions
      BY <1>1, <1>2, <2>1, <3>1
    <3>5. j \in Left'
      BY <1>2, <2>1, <3>1
    <3>6. j' \in Int /\ 0 <= j' /\ j' <= i' /\ i' <= count
      BY <1>1, <1>2, <3>1
    <3>7. \A p \in Left' : p < j' => array'[p] # NULL
      <4>1. TAKE p \in Left'
      <4>2. CASE p = j
        BY <2>2, <3>2, <4>2
      <4>3. CASE p # j
        <5>1. p \in Positions /\ p \in Left /\ (p < j' => p < j)
          BY <1>2, <3>1, <3>3, <4>3
        <5>2. QED
          BY <1>2, <3>2, <4>3, <5>1
      <4>4. QED
        BY <4>2, <4>3
    <3>8. \A p \in Left' : \E r \in Left :
            array'[p] = array[r] /\ (p = j => r = i) /\ (p # j => r = p)
      <4>1. TAKE p \in Left'
      <4>2. CASE p = j
        BY <1>3, <3>2, <4>2
      <4>3. CASE p # j
        BY <3>2, <3>3, <4>3
      <4>4. QED
        BY <4>2, <4>3
    <3>9. \A r \in Left : array[r] # NULL => \E p \in Left' : array'[p] = array[r]
      <4>1. TAKE r \in Left
      <4>2. CASE r = i
        BY <3>2, <3>5, <4>2
      <4>3. CASE r # i
        BY <3>2, <3>4, <4>3
      <4>4. QED
        BY <4>2, <4>3
    <3>10. QED
      BY <2>1, <3>2, <3>6, <3>7, <3>8, <3>9
  <2>3. CASE array[i] = NULL
    <3>1. array' = array /\ j' = j
      BY <2>3 DEF Compact
    <3>2. \A p \in Left' : p \in Left /\ p # i
      BY <1>1, <1>2, <2>1, <3>1
    <3>3. \A r \in Left : r # i => r \in Left'
      BY <1>1, <1>2, <2>1, <3>1
    <3>4. j \notin Left'
      BY <1>1, <1>2, <2>1, <3>1
    <3>5. j' \in Int /\ 0 <= j' /\ j' <= i' /\ i' <= count
      BY <1>1, <1>2, <3>1
    <3>6. \A p \in Left' : p < j' => array'[p] # NULL
      BY <1>2, <3>1, <3>2
    <3>7. \A p \in Left' : \E r \in Left :
            array'[p] = array[r] /\ (p = j => r = i) /\ (p # j => r = p)
      BY <3>1, <3>2, <3>4
    <3>8. \A r \in Left : array[r] # NULL => \E p \in Left' : array'[p] = array[r]
      BY <2>3, <3>1, <3>3
    <3>9. QED
      BY <1>3, <2>1, <3>1, <3>5, <3>6, <3>7, <3>8
  <2>4. QED
    BY <2>2, <2>3
<1>6. TypeOK' /\ Positions' = Positions
  <2>1. stack' \in Seq(Frame) /\ \A k \in 1 .. Depth' : stack'[k].left <= stack'[k].right + 1
    BY <1>1 DEF IInv, TypeOK, Depth
  <2>2. idx' \in Int /\ i' \in Int /\ j' \in Int
    BY <1>1, <1>2, <1>5 DEF IInv, TypeOK
  <2>3. phase' \in {"sorting", "compacting"} /\ phase # "returned"
    BY <1>1
  <2>4. QED
    BY <1>1, <1>5, <2>1, <2>2, <2>3, TypeAgain
<1>7. OneOfEachLeft'
  <2>1. SUFFICES ASSUME NEW w \in Positions
                 PROVE  \E p \in Left' : array'[p] # NULL /\ text[array'[p]] = text[w]
    BY <1>1, <1>6 DEF OneOfEachLeft
  <2>2. PICK r \in Left : array[r] # NULL /\ text[array[r]] = text[w]
    BY <1>4
  <2>3. PICK p \in Left' : array'[p] = array[r]
    BY <1>5, <2>2
  <2>4. QED
    BY <2>2, <2>3
<1>8. OrderedButPending'
  <2>1. SUFFICES ASSUME NEW p \in Left', NEW q \in Left', p < q, array'[p] # NULL, array'[q] # NULL
                 PROVE  text[array'[p]] < text[array'[q]]
    BY <1>1 DEF OrderedButPending
  <2>2. PICK r \in Left : array'[p] = array[r] /\ (p = j => r = i) /\ (p # j => r = p)
    BY <1>5
  <2>3. PICK s \in Left : array'[q] = array[s] /\ (q = j => s = i) /\ (q # j => s = q)
    BY <1>5
  <2>4. r < s
    <3>1. p \in Int /\ q \in Int /\ (q < j \/ q > i \/ q = j) /\ (p < j \/ p > i \/ p = j)
      <4>1. j' \in {j, j + 1}
        BY DEF Compact
      <4>2. \A x \in Left' : x \in Int /\ (x < j \/ x > i \/ x = j)
        <5>1. Left' = (0 .. (j' - 1)) \cup ((i + 1) .. (count - 1))
          BY <1>5
        <5>2. CASE j' = j
          BY <1>2, <5>1, <5>2
        <5>3. CASE j' = j + 1
          BY <1>2, <5>1, <5>3
        <5>4. QED
          BY <4>1, <5>2, <5>3
      <4>3. QED
        BY <4>2
    <3>2. QED
      BY <1>2, <2>1, <2>2, <2>3, <3>1
  <2>5. QED
    BY <1>2, <2>1, <2>2, <2>3, <2>4
<1>9. GapsClosed'
  <2>1. phase' = "compacting"
    BY <1>1
  <2>2. QED
    BY <1>1, <1>5, <2>1 DEF GapsClosed
<1>10. CallersWait' /\ Nested' /\ LoopInv'
  <2>1. stack' = <<>> /\ Depth' = 0
    BY <1>1, <1>2 DEF Depth
  <2>2. QED
    BY <2>1 DEF CallersWait, Nested, LoopInv
<1>11. QED
  BY <1>1, <1>2, <1>6, <1>7, <1>8, <1>9, <1>10 DEF IInv

LEMMA CompactDoneKeepsIInv == IInv /\ CompactDone => IInv'
<1> SUFFICES ASSUME IInv, CompactDone PROVE IInv'
  OBVIOUS
<1>1. /\ phase = "compacting" /\ i >= count /\ count' = j /\ phase' = "returned"
      /\ text' = text /\ array' = array /\ stack' = stack
      /\ idx' = idx /\ i' = i /\ j' = j
  BY DEF CompactDone
<1>2. /\ count \in Nat /\ Positions = 0 .. (count - 1) /\ stack = <<>> /\ Depth = 0
      /\ i \in Int /\ j \in Int /\ 0 <= j /\ j <= i /\ i <= count
      /\ Left = (0 .. (j - 1)) \cup (i .. (count - 1))
      /\ \A p \in Left : p \in Positions /\ (p < j => array[p] # NULL)
      /\ \A p, q \in Left : (p < q /\ array[p] # NULL /\ array[q] # NULL) =>
           text[array[p]] < text[array[q]]
  BY <1>1, CompactingFacts
<1>3. Left = 0 .. (j - 1) /\ Left' = Left
  <2>1. Left = 0 .. (j - 1)
    BY <1>1, <1>2
  <2>2. Left' = 0 .. (j - 1)
    BY <1>1 DEF Left
  <2>3. QED
    BY <2>1, <2>2
<1>4. Positions' = Positions /\ Depth' = 0 /\ stack' = <<>>
  BY <1>1, <1>2 DEF Positions, Depth
<1>5. TypeOK'
  <2>1. PICK n \in Counts : Positions = 0 .. (n - 1) /\ count \in 0 .. n
    BY DEF IInv, TypeOK
  <2>2. n \in Nat
    BY CountsAssumption
  <2>3. count' \in 0 .. n
    BY <1>1, <1>2, <2>1, <2>2
  <2>4. stack' \in Seq(Frame') /\ 1 .. Depth' = {}
    BY <1>4
  <2>5. QED
    BY <1>1, <1>4, <2>1, <2>3, <2>4 DEF IInv, TypeOK
<1>6. OneOfEachLeft'
  BY <1>1, <1>3, <1>4 DEF IInv, OneOfEachLeft
<1>7. OrderedButPending'
  BY <1>1, <1>2, <1>3 DEF OrderedButPending
<1>8. GapsClosed'
  <2>1. \A p \in Left : p < j
    BY <1>2, <1>3
  <2>2. QED
    BY <1>1, <1>2, <1>3, <2>1 DEF GapsClosed
<1>9. CallersWait' /\ Nested' /\ LoopInv'
  BY <1>4 DEF CallersWait, Nested, LoopInv
<1>10. QED
  BY <1>1, <1>4, <1>5, <1>6, <1>7, <1>8, <1>9 DEF IInv

LEMMA StutterKeepsIInv == IInv /\ UNCHANGED vars => IInv'
<1> SUFFICES ASSUME IInv, UNCHANGED vars PROVE IInv'
  OBVIOUS
<1>1. /\ count' = count /\ text' = text /\ array' = array /\ phase' = phase
      /\ stack' = stack /\ idx' = idx /\ i' = i /\ pivot' = pivot /\ j' = j
  BY DEF vars
<1>2. /\ Positions' = Positions /\ Frame' = Frame /\ Depth' = Depth /\ Top' = Top /\ Left' = Left
  BY <1>1 DEF Positions, Frame, Depth, Top, Left
<1>3. TypeOK' /\ OneOfEachLeft' /\ GapsClosed'
  BY <1>1, <1>2 DEF IInv, TypeOK, OneOfEachLeft, GapsClosed
<1>4. CallersWait' /\ Nested' /\ OrderedButPending' /\ LoopInv'
  BY <1>1, <1>2 DEF IInv, CallersWait, Nested, OrderedButPending, LoopInv
<1>5. QED
  BY <1>1, <1>3, <1>4 DEF IInv

(* The invariant holds in every reachable state.                            *)
THEOREM Invariance == Spec => []IInv
<1>1. IInv /\ [Next]_vars => IInv'
  BY CallKeepsIInv, NullPivotKeepsIInv, PartitionKeepsIInv, CompareKeepsIInv,
     PlacePivotKeepsIInv, SecondCallKeepsIInv, ReturnKeepsIInv, CompactKeepsIInv,
     CompactDoneKeepsIInv, StutterKeepsIInv
     DEF Next, Returned
<1>2. QED
  BY InitIInv, <1>1, PTL DEF Spec

(***************************************************************************)
(* What the invariant implies.                                             *)
(***************************************************************************)

(* SequentialSortUniqueWords drops duplicates only: at every moment each    *)
(* word of the input has an occurrence that is not NULL.                    *)
THEOREM WordsKept == Spec => []OneOfEachLeft
<1>1. IInv => OneOfEachLeft
  BY DEF IInv
<1>2. QED
  BY Invariance, <1>1, PTL

(* No occurrence of a word is separated from another one by the recursion:  *)
(* partition always gets to compare the two.                                *)
LEMMA IInvTogether == IInv => EqualsTogether
<1> SUFFICES ASSUME IInv, phase = "sorting",
                    NEW p \in Positions, NEW q \in Positions,
                    p < q, array[p] # NULL, array[q] # NULL, text[array[p]] = text[array[q]]
             PROVE  \E k \in 1 .. Depth : p \in Pending(stack[k]) /\ q \in Pending(stack[k])
  BY DEF EqualsTogether
<1>1. Left = Positions
  BY DataFacts DEF Left
<1>2. text[array[p]] \in Int
  BY DataFacts
<1>3. QED
  BY <1>1, <1>2 DEF IInv, OrderedButPending

THEOREM DuplicatesMeet == Spec => []EqualsTogether
BY Invariance, IInvTogether, PTL

(* What SequentialSortUniqueWords returns has every word of its input once, *)
(* in the order of strcmp, and no NULL.                                     *)
LEMMA IInvUnique == IInv => UniqueWhenReturned
<1> SUFFICES ASSUME IInv, phase = "returned"
             PROVE  /\ \A p \in 0 .. (count - 1) : array[p] # NULL
                    /\ \A p \in 1 .. (count - 1) : text[array[p - 1]] < text[array[p]]
                    /\ \A w \in Positions : \E p \in 0 .. (count - 1) : text[array[p]] = text[w]
  BY DEF UniqueWhenReturned
<1>1. Left = 0 .. (count - 1) /\ count \in Nat
  BY DataFacts DEF Left
<1>2. Depth = 0
  BY DEF IInv, Depth
<1>3. \A p \in 0 .. (count - 1) : array[p] # NULL
  BY <1>1 DEF IInv, GapsClosed
<1>4. ASSUME NEW p \in 1 .. (count - 1) PROVE text[array[p - 1]] < text[array[p]]
  <2>1. p - 1 \in Left /\ p \in Left /\ p - 1 < p
    BY <1>1
  <2>2. 1 .. Depth = {}
    BY <1>2
  <2>3. QED
    BY <1>1, <1>3, <2>1, <2>2 DEF IInv, OrderedButPending
<1>5. \A w \in Positions : \E p \in 0 .. (count - 1) : text[array[p]] = text[w]
  BY <1>1 DEF IInv, OneOfEachLeft
<1>6. QED
  BY <1>3, <1>4, <1>5

THEOREM SortsUnique == Spec => []UniqueWhenReturned
BY Invariance, IInvUnique, PTL

(* The recursion is never deeper than the array is long, though a NULL      *)
(* pivot leaves the whole rest of the range to the second call.             *)
LEMMA IInvDepth == IInv => DepthBounded
<1> SUFFICES ASSUME IInv PROVE Depth <= count
  BY DEF DepthBounded
<1>1. CASE stack = <<>>
  BY <1>1, DataFacts DEF Depth
<1>2. CASE stack # <<>>
  <2>1. Depth \in Nat /\ Depth > 0 /\ count \in Nat /\ count > 1
    BY <1>2, StackFacts
  <2>2. CASE Depth = 1
    BY <2>1, <2>2
  <2>3. CASE Depth # 1
    <3> DEFINE f == stack[Depth - 1]
    <3>1. Depth - 1 \in 1 .. Depth /\ Depth - 1 < Depth
      BY <2>1, <2>3
    <3>2. f.left \in Int /\ f.right \in Int
      BY <1>2, <3>1, StackFacts
    <3>3. f.left < f.right
      BY <3>1 DEF IInv, CallersWait
    <3>4. f.right - f.left + 1 <= count - (Depth - 1) + 1
      BY <3>1 DEF IInv, Nested
    <3> HIDE DEF f
    <3>5. QED
      BY <2>1, <3>2, <3>3, <3>4
  <2>4. QED
    BY <2>2, <2>3
<1>3. QED
  BY <1>1, <1>2

THEOREM DepthIsBounded == Spec => []DepthBounded
BY Invariance, IInvDepth, PTL
==============================================================================
