-------------------------- MODULE QuickSortProofs ---------------------------
(***************************************************************************)
(* Proofs about QuickSort: for every set of array lengths and every set of *)
(* words, the invariant IInv holds, and with it type correctness, the      *)
(* safety of the sort and its refinement of Sorting.                       *)
(***************************************************************************)
EXTENDS SequentialSorts, SequenceTheorems, TLAPS

(***************************************************************************)
(* The three ways the call stack changes.                                  *)
(***************************************************************************)
LEMMA Replace ==
  ASSUME NEW F, NEW s \in Seq(F), NEW n \in Nat, n = Len(s), n > 0, NEW f \in F,
         NEW r, r = [s EXCEPT ![n] = f]
  PROVE  /\ r \in Seq(F) /\ r # <<>>
         /\ Len(r) = n
         /\ r[n] = f
         /\ \A k \in 1 .. (n - 1) : r[k] = s[k]
OBVIOUS

LEMMA ReplaceAndPush ==
  ASSUME NEW F, NEW s \in Seq(F), NEW n \in Nat, n = Len(s), n > 0,
         NEW f \in F, NEW c \in F,
         NEW t, t = Append([s EXCEPT ![n] = f], c)
  PROVE  /\ t \in Seq(F) /\ t # <<>>
         /\ Len(t) = n + 1
         /\ t[n + 1] = c
         /\ t[n] = f
         /\ \A k \in 1 .. (n - 1) : t[k] = s[k]
OBVIOUS

LEMMA Pop ==
  ASSUME NEW F, NEW s \in Seq(F), NEW n \in Nat, n = Len(s), n > 0
  PROVE  LET t == SubSeq(s, 1, n - 1)
         IN  /\ t \in Seq(F)
             /\ Len(t) = n - 1
             /\ t = <<>> <=> n = 1
             /\ \A k \in 1 .. (n - 1) : t[k] = s[k]
<1> DEFINE t == SubSeq(s, 1, n - 1)
<1>1. t \in Seq(F) /\ Len(t) = n - 1
  BY SubSeqProperties
<1>2. t = <<>> <=> n = 1
  <2>1. t = <<>> <=> Len(t) = 0
    BY <1>1, EmptySeq
  <2>2. n - 1 = 0 <=> n = 1
    OBVIOUS
  <2>3. QED
    BY <1>1, <2>1, <2>2, Zenon
<1>3. \A k \in 1 .. (n - 1) : t[k] = s[k]
  OBVIOUS
<1>4. QED
  BY <1>1, <1>2, <1>3

(***************************************************************************)
(* What the invariant says of the call stack while it is not empty.        *)
(***************************************************************************)
LEMMA StackFacts ==
  ASSUME IInv, stack # <<>>
  PROVE  /\ count \in Nat
         /\ Depth \in Nat /\ Depth > 0 /\ Depth = Len(stack)
         /\ stack \in Seq(Frame)
         /\ \A k \in 1 .. Depth :
              /\ stack[k] \in Frame
              /\ stack[k].left \in Int /\ stack[k].right \in Int
              /\ stack[k].partition_index \in Int
         /\ Top \in Frame
         /\ Top.left \in Int /\ Top.right \in Int /\ Top.partition_index \in Int
         /\ \A p \in Positions : p \in Int
         /\ phase = "sorting" /\ count > 1
         /\ array \in [Positions -> Positions]
         /\ text \in [Positions -> Word]
         /\ \A p \in Positions : text[p] \in Int
<1>1. count \in Nat /\ Word \subseteq Int
  BY CountsAssumption, WordAssumption DEF IInv, TypeOK
<1>2. Depth \in Nat /\ Depth = Len(stack) /\ stack \in Seq(Frame)
  BY LenProperties DEF IInv, TypeOK, Depth
<1>3. Depth > 0
  BY <1>2, EmptySeq
<1>4. \A k \in 1 .. Depth :
        /\ stack[k] \in Frame
        /\ stack[k].left \in Int /\ stack[k].right \in Int
        /\ stack[k].partition_index \in Int
  <2>1. TAKE k \in 1 .. Depth
  <2>2. stack[k] \in Frame
    BY <1>2, ElementOfSeq
  <2>3. QED
    BY <1>1, <2>2 DEF Frame
<1>5. /\ Top \in Frame
      /\ Top.left \in Int /\ Top.right \in Int /\ Top.partition_index \in Int
      /\ \A p \in Positions : p \in Int
  BY <1>1, <1>2, <1>3, <1>4 DEF Top, Positions
<1>6. phase = "sorting" /\ count > 1
  BY DEF IInv, SortInv
<1>7. array \in [Positions -> Positions] /\ text \in [Positions -> Word]
  BY DEF IInv, TypeOK
<1>8. QED
  BY <1>1, <1>2, <1>3, <1>4, <1>5, <1>6, <1>7

(***************************************************************************)
(* A position of the running activation's range is pending in no caller.   *)
(***************************************************************************)
LEMMA PendingDisjoint ==
  ASSUME IInv, stack # <<>>, NEW p \in Positions, InRange(p, Top),
         NEW k \in 1 .. (Depth - 1)
  PROVE  p \notin Pending(stack[k])
<1>1. Depth \in Nat /\ Depth > 0 /\ k \in 1 .. Depth /\ Depth \in (k + 1) .. Depth
  BY StackFacts
<1>2. stack[k].at \in {"left", "right"} /\ stack[k] \in Frame
  BY <1>1, StackFacts DEF IInv, SortInv, CallersWait
<1>3. InCall(p, stack[k])
  BY <1>1 DEF IInv, SortInv, Nested, Top
<1>4. /\ p \in Int /\ stack[k].left \in Int /\ stack[k].right \in Int
      /\ stack[k].partition_index \in Int
  BY <1>1, StackFacts
<1>5. QED
  BY <1>2, <1>3, <1>4 DEF InCall, Pending

(***************************************************************************)
(* An exchange inside the range of the running activation keeps the words  *)
(* and the order of every pair of positions not inside that range.         *)
(***************************************************************************)
Exchanged(b, x, y) ==
  /\ b \in [Positions -> Positions]
  /\ b[x] = array[y]
  /\ b[y] = array[x]
  /\ \A p \in Positions : p # x /\ p # y => b[p] = array[p]
  /\ \A w \in Positions : \E p \in Positions : b[p] = w
  /\ \A p, q \in Positions :
       p < q /\ ~(InRange(p, Top) /\ InRange(q, Top)) =>
         \/ text[b[p]] <= text[b[q]]
         \/ \E k \in 1 .. (Depth - 1) : p \in Pending(stack[k]) /\ q \in Pending(stack[k])

LEMMA SwapInRange ==
  ASSUME IInv, stack # <<>>, Top.at = "partitioning",
         NEW x \in Positions, NEW y \in Positions,
         InRange(x, Top), InRange(y, Top),
         NEW b, b = swap_words(array, x, y)
  PROVE  Exchanged(b, x, y)
<1>0. /\ count \in Nat /\ Depth \in Nat /\ Depth > 0
      /\ array \in [Positions -> Positions]
      /\ Top.left \in Int /\ Top.right \in Int
      /\ \A p \in Positions : p \in Int /\ text[p] \in Int
  BY StackFacts
<1>1. /\ b \in [Positions -> Positions]
      /\ b[x] = array[y]
      /\ b[y] = array[x]
      /\ \A p \in Positions : p # x /\ p # y => b[p] = array[p]
      /\ \A p \in Positions : \E q \in Positions : b[q] = array[p]
  BY <1>0 DEF swap_words
<1>2. \A w \in Positions : \E p \in Positions : b[p] = w
  <2>1. TAKE w \in Positions
  <2>2. PICK q \in Positions : array[q] = w
    BY DEF IInv, NoWordLost
  <2>3. QED
    BY <1>1, <2>2
<1>3. \A p, q \in Positions :
        p < q /\ ~(InRange(p, Top) /\ InRange(q, Top)) =>
          \/ text[array[p]] <= text[array[q]]
          \/ \E k \in 1 .. (Depth - 1) :
               p \in Pending(stack[k]) /\ q \in Pending(stack[k])
  <2>1. TAKE p, q \in Positions
  <2>2. HAVE p < q /\ ~(InRange(p, Top) /\ InRange(q, Top))
  <2>3. \/ text[array[p]] <= text[array[q]]
        \/ \E k \in 1 .. Depth : p \in Pending(stack[k]) /\ q \in Pending(stack[k])
    BY <2>2 DEF IInv, SortInv, OrderedButPending
  <2>4. ~(p \in Pending(Top) /\ q \in Pending(Top))
    BY <1>0, <2>2 DEF Pending, InRange
  <2>5. QED
    BY <1>0, <2>3, <2>4 DEF Top
<1>4. \A p \in Positions : InRange(p, Top) =>
        /\ \E r \in Positions : InRange(r, Top) /\ b[p] = array[r]
        /\ \A k \in 1 .. (Depth - 1) : p \notin Pending(stack[k])
  BY <1>1, PendingDisjoint
<1>5. \A p \in Positions : ~InRange(p, Top) => b[p] = array[p]
  BY <1>1
<1>6. ASSUME NEW p \in Positions, NEW q \in Positions, p < q,
             ~(InRange(p, Top) /\ InRange(q, Top))
      PROVE  \/ text[b[p]] <= text[b[q]]
             \/ \E k \in 1 .. (Depth - 1) :
                  p \in Pending(stack[k]) /\ q \in Pending(stack[k])
  <2>1. CASE InRange(p, Top)
    <3>1. PICK r \in Positions : InRange(r, Top) /\ b[p] = array[r]
      BY <1>4, <2>1
    <3>2. r < q /\ ~InRange(q, Top)
      BY <1>0, <1>6, <2>1, <3>1 DEF InRange
    <3>3. text[array[r]] <= text[array[q]]
      BY <1>3, <1>4, <3>1, <3>2
    <3>4. QED
      BY <1>5, <3>1, <3>2, <3>3
  <2>2. CASE InRange(q, Top)
    <3>1. PICK r \in Positions : InRange(r, Top) /\ b[q] = array[r]
      BY <1>4, <2>2
    <3>2. p < r /\ ~InRange(p, Top)
      BY <1>0, <1>6, <2>2, <3>1 DEF InRange
    <3>3. text[array[p]] <= text[array[r]]
      BY <1>3, <1>4, <3>1, <3>2
    <3>4. QED
      BY <1>5, <3>1, <3>2, <3>3
  <2>3. CASE ~InRange(p, Top) /\ ~InRange(q, Top)
    BY <1>3, <1>5, <1>6, <2>3
  <2>4. QED
    BY <2>1, <2>2, <2>3
<1>7. QED
  BY <1>1, <1>2, <1>6 DEF Exchanged

(***************************************************************************)
(* The invariant holds initially and every action keeps it.                *)
(***************************************************************************)
LEMMA InitIInv == Init => IInv
<1> SUFFICES ASSUME Init PROVE IInv
  OBVIOUS
<1>1. count \in Nat
  BY CountsAssumption DEF Init, InputInit
<1>2. Depth = 0 /\ stack = <<>>
  BY DEF Init, InputInit, Depth
<1>3. TypeOK
  BY <1>1, <1>2 DEF Init, InputInit, TypeOK, Positions
<1>4. NoWordLost
  BY DEF Init, InputInit, NoWordLost
<1>5. PartitionInRange /\ CallersWait /\ Nested /\ LoopInv
  BY <1>2 DEF PartitionInRange, CallersWait, Nested, LoopInv
<1>6. OrderedButPending
  BY <1>1 DEF Init, InputInit, OrderedButPending, Positions
<1>7. QED
  BY <1>2, <1>3, <1>4, <1>5, <1>6 DEF Init, InputInit, IInv, SortInv

LEMMA CallKeepsIInv == IInv /\ quick_sort_words => IInv'
<1> SUFFICES ASSUME IInv, quick_sort_words PROVE IInv'
  OBVIOUS
<1>1. /\ count \in Nat /\ count' = count /\ text' = text /\ array' = array
      /\ idx' = idx /\ i' = i /\ pivot' = pivot
      /\ phase = "called" /\ stack = <<>>
  BY CountsAssumption DEF quick_sort_words, IInv, TypeOK, SortInv
<1>2. Positions' = Positions /\ Frame' = Frame
  BY <1>1 DEF Positions, Frame
<1>3. NoWordLost'
  BY <1>1, <1>2 DEF IInv, NoWordLost
<1>4. CASE count <= 1
  <2>1. phase' = "returned" /\ stack' = <<>> /\ Depth' = 0
    BY <1>1, <1>4 DEF quick_sort_words, Depth
  <2>2. TypeOK'
    BY <1>1, <1>2, <2>1 DEF IInv, TypeOK
  <2>3. PartitionInRange' /\ CallersWait' /\ Nested' /\ LoopInv'
    BY <2>1 DEF PartitionInRange, CallersWait, Nested, LoopInv
  <2>4. OrderedButPending'
    BY <1>1, <1>4 DEF OrderedButPending, Positions
  <2>5. QED
    BY <1>3, <2>1, <2>2, <2>3, <2>4 DEF IInv, SortInv
<1>5. CASE count > 1
  <2> DEFINE f == Call(0, count - 1)
  <2>1. phase' = "sorting" /\ stack' = <<f>>
    BY <1>1, <1>5 DEF quick_sort_words
  <2>2. /\ f \in Frame /\ f.left = 0 /\ f.right = count - 1
        /\ f.at = "entered" /\ f.partition_index = 0
    BY <1>1, <1>5 DEF Call, Frame, Points
  <2> HIDE DEF f
  <2>3. /\ stack' \in Seq(Frame) /\ stack' # <<>> /\ Depth' = 1
        /\ Top' = f /\ \A k \in 1 .. Depth' : stack'[k] = f
    BY <2>1, <2>2 DEF Depth, Top
  <2>4. TypeOK'
    BY <1>1, <1>2, <1>5, <2>1, <2>2, <2>3 DEF IInv, TypeOK
  <2>5. PartitionInRange' /\ LoopInv'
    BY <2>2, <2>3 DEF PartitionInRange, LoopInv
  <2>6. CallersWait'
    BY <2>2, <2>3 DEF CallersWait
  <2>7. Nested'
    BY <1>1, <2>2, <2>3 DEF Nested
  <2>8. OrderedButPending'
    BY <1>1, <1>2, <2>2, <2>3 DEF OrderedButPending, Pending, Positions
  <2>9. QED
    BY <1>1, <1>3, <1>5, <2>1, <2>3, <2>4, <2>5, <2>6, <2>7, <2>8 DEF IInv, SortInv
<1>6. QED
  BY <1>1, <1>4, <1>5

LEMMA PartitionKeepsIInv == IInv /\ Partition => IInv'
<1> SUFFICES ASSUME IInv, Partition PROVE IInv'
  OBVIOUS
<1> DEFINE f == [Top EXCEPT !.at = "partitioning"]
<1>1. /\ count \in Nat
      /\ Depth \in Nat /\ Depth > 0 /\ Depth = Len(stack)
      /\ stack \in Seq(Frame) /\ stack # <<>>
      /\ Top \in Frame /\ Top.left \in Int /\ Top.right \in Int
      /\ phase = "sorting" /\ count > 1
      /\ array \in [Positions -> Positions]
  BY StackFacts DEF Partition
<1>2. /\ count' = count /\ text' = text /\ array' = array /\ phase' = phase
      /\ Top.at = "entered" /\ Top.left < Top.right
      /\ idx' = Top.left /\ i' = Top.left /\ pivot' = array[Top.right]
  BY DEF Partition
<1>3. Positions' = Positions /\ Frame' = Frame
  BY <1>2 DEF Positions, Frame
<1>4. /\ f \in Frame /\ f.left = Top.left /\ f.right = Top.right
      /\ f.at = "partitioning" /\ f.partition_index = Top.partition_index
  BY <1>1 DEF Frame, Points
<1>5. stack' = [stack EXCEPT ![Depth] = f]
  BY DEF Partition, Top
<1> HIDE DEF f
<1>6. /\ stack' \in Seq(Frame) /\ stack' # <<>> /\ Depth' = Depth
      /\ stack'[Depth] = f /\ Top' = f
      /\ \A k \in 1 .. (Depth - 1) : stack'[k] = stack[k]
  BY <1>1, <1>4, <1>5, Replace DEF Depth, Top
<1>7. \A k \in 1 .. Depth :
        /\ stack'[k].left = stack[k].left /\ stack'[k].right = stack[k].right
        /\ stack'[k].partition_index = stack[k].partition_index
        /\ Pending(stack'[k]) = Pending(stack[k])
        /\ k < Depth => stack'[k] = stack[k]
  BY <1>1, <1>2, <1>4, <1>6 DEF Top, Pending
<1>t. Top.right \in Positions /\ Top.left \in 0 .. count
  BY <1>1, <1>2 DEF Frame, Positions
<1>8. TypeOK'
  <2>2. array[Top.right] \in 0 .. count
    BY <1>1, <1>t DEF Positions
  <2>3. \A k \in 1 .. Depth' : stack'[k].left <= stack'[k].right + 1
    BY <1>6, <1>7 DEF IInv, TypeOK
  <2>4. QED
    BY <1>2, <1>3, <1>6, <1>t, <2>2, <2>3 DEF IInv, TypeOK
<1>9. NoWordLost'
  BY <1>2, <1>3 DEF IInv, NoWordLost
<1>10. PartitionInRange'
  BY <1>1, <1>2, <1>3, <1>4, <1>6, <1>t DEF PartitionInRange
<1>11. CallersWait'
  BY <1>1, <1>2, <1>4, <1>6, <1>7 DEF IInv, SortInv, CallersWait
<1>12. Nested'
  <2>1. SUFFICES ASSUME NEW k \in 1 .. Depth
                 PROVE  /\ stack'[k].right - stack'[k].left + 1 <= count' - k + 1
                        /\ \A m \in (k + 1) .. Depth' : \A p \in Positions' :
                             InRange(p, stack'[m]) => InCall(p, stack'[k])
    BY <1>6 DEF Nested
  <2>2. k \in 1 .. Depth
    OBVIOUS
  <2>3. stack'[k].right - stack'[k].left + 1 <= count' - k + 1
    BY <1>2, <1>7, <2>2 DEF IInv, SortInv, Nested
  <2>4. ASSUME NEW m \in (k + 1) .. Depth', NEW p \in Positions', InRange(p, stack'[m])
        PROVE  InCall(p, stack'[k])
    <3>1. m \in (k + 1) .. Depth /\ m \in 1 .. Depth /\ k < Depth
      BY <1>1, <1>6, <2>2
    <3>2. InRange(p, stack[m])
      BY <1>7, <2>4, <3>1 DEF InRange
    <3>3. QED
      BY <1>3, <1>7, <2>2, <3>1, <3>2 DEF IInv, SortInv, Nested
  <2>5. QED
    BY <2>3, <2>4
<1>13. OrderedButPending'
  BY <1>1, <1>2, <1>3, <1>6, <1>7 DEF IInv, SortInv, OrderedButPending
<1>14. LoopInv'
  BY <1>1, <1>2, <1>4, <1>6 DEF LoopInv
<1>15. QED
  BY <1>1, <1>2, <1>6, <1>8, <1>9, <1>10, <1>11, <1>12, <1>13, <1>14 DEF IInv, SortInv

LEMMA CompareKeepsIInv == IInv /\ Compare => IInv'
<1> SUFFICES ASSUME IInv, Compare PROVE IInv'
  OBVIOUS
<1>1. /\ count \in Nat
      /\ Depth \in Nat /\ Depth > 0
      /\ stack \in Seq(Frame) /\ stack # <<>>
      /\ Top \in Frame /\ Top.left \in Int /\ Top.right \in Int
      /\ array \in [Positions -> Positions]
      /\ \A p \in Positions : p \in Int /\ text[p] \in Int
  BY StackFacts DEF Compare
<1>2. /\ count' = count /\ text' = text /\ phase' = phase /\ stack' = stack
      /\ pivot' = pivot /\ i' = i + 1
      /\ Top.at = "partitioning" /\ i < Top.right
  BY DEF Compare
<1>3. /\ Positions' = Positions /\ Frame' = Frame /\ Depth' = Depth /\ Top' = Top
  BY <1>2 DEF Positions, Frame, Depth, Top
<1>4. /\ Top.left <= idx /\ idx <= i /\ Top.right \in Positions
      /\ array[Top.right] = pivot
      /\ idx \in Int /\ i \in Int /\ Top.left >= 0 /\ Top.right < count
  BY <1>1, <1>2 DEF IInv, PartitionInRange, TypeOK, Frame
<1>5. /\ idx \in Positions /\ i \in Positions
      /\ InRange(idx, Top) /\ InRange(i, Top)
  BY SMTT(30), <1>1, <1>2, <1>4 DEF Positions, InRange
<1>5a. /\ array[i] \in Positions /\ pivot \in Positions /\ array[idx] \in Positions
       /\ text[array[i]] \in Int /\ text[pivot] \in Int /\ text[array[idx]] \in Int
  BY <1>1, <1>4, <1>5
<1>6. /\ \A p \in Top.left .. (idx - 1) : text[array[p]] < text[pivot]
      /\ \A p \in idx .. (i - 1) : text[array[p]] >= text[pivot]
  BY <1>1, <1>2 DEF IInv, SortInv, LoopInv
<1>7. /\ array' \in [Positions -> Positions]
      /\ NoWordLost'
      /\ array'[Top.right] = pivot
      /\ idx' \in {idx, idx + 1} /\ idx' <= i + 1
      /\ LoopInv'
      /\ OrderedButPending'
  <2>1. CASE text[array[i]] - text[pivot] < 0
    <3>1. array' = swap_words(array, idx, i) /\ idx' = idx + 1
      BY <2>1 DEF Compare, strcmp
    <3>2. /\ array' \in [Positions -> Positions]
          /\ array'[idx] = array[i]
          /\ array'[i] = array[idx]
          /\ \A p \in Positions : p # idx /\ p # i => array'[p] = array[p]
          /\ \A w \in Positions : \E p \in Positions : array'[p] = w
          /\ \A p, q \in Positions :
               p < q /\ ~(InRange(p, Top) /\ InRange(q, Top)) =>
                 \/ text[array'[p]] <= text[array'[q]]
                 \/ \E k \in 1 .. (Depth - 1) :
                      p \in Pending(stack[k]) /\ q \in Pending(stack[k])
      <4>1. stack # <<>> /\ Top.at = "partitioning"
        BY <1>1, <1>2
      <4>2. Exchanged(array', idx, i)
        BY <1>5, <3>1, <4>1, SwapInRange
      <4>3. QED
        BY <4>2 DEF Exchanged
    <3>3. NoWordLost'
      BY <1>3, <3>2 DEF NoWordLost
    <3>4. array'[Top.right] = pivot
      BY SMTT(30), <1>2, <1>4, <3>2
    <3>5. \A p \in Top.left .. idx : text[array'[p]] < text[pivot]
      <4>1. SUFFICES ASSUME NEW p \in Top.left .. idx
                     PROVE  text[array'[p]] < text[pivot]
        OBVIOUS
      <4>2. CASE p = idx
        BY <1>5a, <2>1, <3>2, <4>2
      <4>3. CASE p # idx
        <5>1. p \in Positions /\ p # i /\ p \in Top.left .. (idx - 1)
          BY <1>1, <1>2, <1>4, <4>3 DEF Positions
        <5>2. QED
          BY <1>6, <3>2, <4>3, <5>1
      <4>4. QED
        BY <4>2, <4>3
    <3>6. \A p \in (idx + 1) .. i : text[array'[p]] >= text[pivot]
      <4>1. SUFFICES ASSUME NEW p \in (idx + 1) .. i
                     PROVE  text[array'[p]] >= text[pivot]
        OBVIOUS
      <4>2. CASE p = i
        <5>1. idx \in idx .. (i - 1)
          BY <1>1, <1>4, <4>2
        <5>2. QED
          BY <1>6, <3>2, <4>2, <5>1
      <4>3. CASE p # i
        <5>1. p \in Positions /\ p # idx /\ p \in idx .. (i - 1)
          BY <1>1, <1>2, <1>4, <4>3 DEF Positions
        <5>2. QED
          BY <1>6, <3>2, <4>3, <5>1
      <4>4. QED
        BY <4>2, <4>3
    <3>7. LoopInv'
      BY <1>2, <1>3, <1>4, <3>1, <3>5, <3>6 DEF LoopInv
    <3>8. OrderedButPending'
      <4>1. SUFFICES ASSUME NEW p \in Positions, NEW q \in Positions, p < q
                     PROVE  \/ text[array'[p]] <= text[array'[q]]
                            \/ \E k \in 1 .. Depth : p \in Pending(stack[k]) /\ q \in Pending(stack[k])
        BY <1>2, <1>3 DEF OrderedButPending
      <4>2. CASE InRange(p, Top) /\ InRange(q, Top)
        <5>1. p \in Pending(Top) /\ q \in Pending(Top)
          BY <1>1, <1>2, <4>2 DEF Pending, InRange
        <5>2. QED
          BY <1>1, <5>1 DEF Top
      <4>3. CASE ~(InRange(p, Top) /\ InRange(q, Top))
        <5>1. \/ text[array'[p]] <= text[array'[q]]
              \/ \E k \in 1 .. (Depth - 1) : p \in Pending(stack[k]) /\ q \in Pending(stack[k])
          BY <3>2, <4>1, <4>3
        <5>2. \A k \in 1 .. (Depth - 1) : k \in 1 .. Depth
          BY <1>1
        <5>3. QED
          BY <5>1, <5>2
      <4>4. QED
        BY <4>2, <4>3
    <3>9. QED
      BY <1>4, <3>1, <3>2, <3>3, <3>4, <3>7, <3>8
  <2>2. CASE ~(text[array[i]] - text[pivot] < 0)
    <3>1. array' = array /\ idx' = idx
      BY <2>2 DEF Compare, strcmp
    <3>2. text[array[i]] >= text[pivot]
      BY <1>5a, <2>2
    <3>3. LoopInv'
      BY <1>2, <1>3, <1>4, <1>6, <3>1, <3>2 DEF LoopInv
    <3>4. NoWordLost' /\ OrderedButPending'
      BY <1>2, <1>3, <3>1 DEF IInv, SortInv, NoWordLost, OrderedButPending
    <3>5. QED
      BY <1>1, <1>4, <3>1, <3>3, <3>4
  <2>3. QED
    BY <2>1, <2>2
<1>7a. /\ idx' \in 0 .. count /\ i' \in 0 .. count
       /\ Top.left <= idx' /\ idx' <= i' /\ i' <= Top.right
  BY <1>1, <1>2, <1>4, <1>7
<1>8. TypeOK'
  BY <1>2, <1>3, <1>7, <1>7a DEF IInv, TypeOK
<1>9. PartitionInRange'
  BY <1>2, <1>3, <1>4, <1>7, <1>7a DEF PartitionInRange
<1>10. CallersWait' /\ Nested'
  BY <1>2, <1>3 DEF IInv, SortInv, CallersWait, Nested
<1>11. QED
  BY <1>2, <1>7, <1>8, <1>9, <1>10 DEF IInv, SortInv
LEMMA PlacePivotKeepsIInv == IInv /\ PlacePivot => IInv'
<1> SUFFICES ASSUME IInv, PlacePivot PROVE IInv'
  OBVIOUS
<1> DEFINE f == [Top EXCEPT !.at = "left", !.partition_index = idx]
           c == Call(Top.left, idx - 1)
<1>1. /\ count \in Nat
      /\ Depth \in Nat /\ Depth > 0 /\ Depth = Len(stack)
      /\ stack \in Seq(Frame) /\ stack # <<>>
      /\ Top \in Frame /\ Top.left \in Int /\ Top.right \in Int
      /\ phase = "sorting" /\ count > 1
      /\ array \in [Positions -> Positions]
      /\ \A p \in Positions : p \in Int /\ text[p] \in Int
  BY StackFacts DEF PlacePivot
<1>2. /\ count' = count /\ text' = text /\ phase' = phase
      /\ idx' = idx /\ i' = i /\ pivot' = pivot
      /\ Top.at = "partitioning" /\ i >= Top.right
      /\ array' = swap_words(array, idx, Top.right)
  BY DEF PlacePivot
<1>3. Positions' = Positions /\ Frame' = Frame
  BY <1>2 DEF Positions, Frame
<1>4. /\ Top.left <= idx /\ idx <= i /\ i = Top.right /\ Top.right \in Positions
      /\ array[Top.right] = pivot
      /\ idx \in Int /\ Top.left >= 0 /\ Top.right < count
      /\ Top.left < Top.right
  <2>1. /\ Top.left <= idx /\ idx <= i /\ i <= Top.right /\ Top.right \in Positions
        /\ array[Top.right] = pivot /\ idx \in Int /\ i \in Int
    BY <1>1, <1>2 DEF IInv, PartitionInRange, TypeOK
  <2>2. Top.left >= 0 /\ Top.right < count
    BY <1>1 DEF Frame
  <2>3. Top.left < Top.right
    BY <1>1, <1>2 DEF IInv, SortInv, CallersWait, Top
  <2>4. QED
    BY <1>1, <1>2, <2>1, <2>2, <2>3
<1>5. /\ idx \in Positions /\ InRange(idx, Top) /\ InRange(Top.right, Top)
  BY SMTT(30), <1>1, <1>4 DEF Positions, InRange
<1>6. /\ f \in Frame /\ f.left = Top.left /\ f.right = Top.right
      /\ f.at = "left" /\ f.partition_index = idx
  <2>1. idx \in 0 .. count /\ "left" \in Points
    BY <1>1, <1>4 DEF Points
  <2>2. QED
    BY <1>1, <2>1 DEF Frame
<1>7. /\ c \in Frame /\ c.left = Top.left /\ c.right = idx - 1
      /\ c.at = "entered" /\ c.partition_index = Top.left
  BY <1>1, <1>4 DEF Frame, Points, Call
<1>8. stack' = Append([stack EXCEPT ![Depth] = f], c)
  BY DEF PlacePivot, Top
<1> HIDE DEF f, c
<1>9. /\ stack' \in Seq(Frame) /\ stack' # <<>> /\ Depth' = Depth + 1
      /\ stack'[Depth + 1] = c /\ Top' = c /\ stack'[Depth] = f
      /\ \A k \in 1 .. (Depth - 1) : stack'[k] = stack[k]
  BY <1>1, <1>6, <1>7, <1>8, ReplaceAndPush DEF Depth, Top
<1>10. Exchanged(array', idx, Top.right)
  BY <1>1, <1>2, <1>4, <1>5, SwapInRange
<1>11. TypeOK'
  <2>1. array' \in [Positions -> Positions]
    BY <1>10 DEF Exchanged
  <2>2. \A k \in 1 .. Depth' : stack'[k].left <= stack'[k].right + 1
    <3>1. SUFFICES ASSUME NEW k \in 1 .. (Depth + 1)
                   PROVE  stack'[k].left <= stack'[k].right + 1
      BY <1>9
    <3>2. CASE k = Depth + 1
      BY <1>1, <1>4, <1>7, <1>9, <3>2
    <3>3. CASE k = Depth
      BY <1>1, <1>4, <1>6, <1>9, <3>3
    <3>4. CASE k \in 1 .. (Depth - 1)
      BY <1>1, <1>9, <3>4 DEF IInv, TypeOK
    <3>5. QED
      BY <1>1, <3>2, <3>3, <3>4
  <2>3. QED
    BY <1>2, <1>3, <1>9, <2>1, <2>2 DEF IInv, TypeOK
<1>12. NoWordLost'
  BY <1>3, <1>10 DEF Exchanged, NoWordLost
<1>13. PartitionInRange' /\ LoopInv'
  BY <1>7, <1>9 DEF PartitionInRange, LoopInv
<1>14. CallersWait'
  <2>1. SUFFICES ASSUME NEW k \in 1 .. (Depth + 1)
                 PROVE  /\ k < Depth + 1 => stack'[k].at \in {"left", "right"}
                        /\ stack'[k].at # "entered" => stack'[k].left < stack'[k].right
                        /\ stack'[k].at \in {"left", "right"} =>
                             /\ stack'[k].left <= stack'[k].partition_index
                             /\ stack'[k].partition_index <= stack'[k].right
    BY <1>9 DEF CallersWait
  <2>2. CASE k = Depth + 1
    BY <1>1, <1>7, <1>9, <2>2
  <2>3. CASE k = Depth
    BY <1>1, <1>4, <1>6, <1>9, <2>3
  <2>4. CASE k \in 1 .. (Depth - 1)
    <3>1. k \in 1 .. Depth /\ k < Depth
      BY <1>1, <2>4
    <3>2. QED
      BY <1>9, <2>4, <3>1 DEF IInv, SortInv, CallersWait
  <2>5. QED
    BY <1>1, <2>2, <2>3, <2>4
<1>15. Nested'
  <2>1. SUFFICES ASSUME NEW k \in 1 .. (Depth + 1)
                 PROVE  /\ stack'[k].right - stack'[k].left + 1 <= count - k + 1
                        /\ \A m \in (k + 1) .. (Depth + 1) : \A p \in Positions :
                             InRange(p, stack'[m]) => InCall(p, stack'[k])
    BY <1>2, <1>3, <1>9 DEF Nested
  <2>2. Top.right - Top.left + 1 <= count - Depth + 1
    BY <1>1 DEF IInv, SortInv, Nested, Top
  <2>3. CASE k = Depth + 1
    <3>1. stack'[k].right = idx - 1 /\ stack'[k].left = Top.left
      BY <1>7, <1>9, <2>3
    <3>2. (k + 1) .. (Depth + 1) = {}
      BY <1>1, <2>3
    <3>3. QED
      BY SMTT(30), <1>1, <1>4, <2>2, <2>3, <3>1, <3>2
  <2>4. CASE k = Depth
    <3>1. \A p \in Positions : InRange(p, c) => InCall(p, f)
      BY <1>1, <1>4, <1>6, <1>7 DEF InRange, InCall
    <3>2. \A m \in (k + 1) .. (Depth + 1) : stack'[m] = c
      BY <1>1, <1>9, <2>4
    <3>3. stack'[k].right - stack'[k].left + 1 <= count - k + 1
      BY <1>1, <1>6, <1>9, <2>2, <2>4
    <3>4. QED
      BY <1>9, <2>4, <3>1, <3>2, <3>3
  <2>5. CASE k \in 1 .. (Depth - 1)
    <3>1. k \in 1 .. Depth /\ stack'[k] = stack[k] /\ Depth \in (k + 1) .. Depth
      BY <1>1, <1>9, <2>5
    <3>2. ASSUME NEW m \in (k + 1) .. (Depth + 1), NEW p \in Positions,
                 InRange(p, stack'[m])
          PROVE  InCall(p, stack[k])
      <4>1. CASE m \in (k + 1) .. (Depth - 1)
        <5>1. stack'[m] = stack[m] /\ m \in (k + 1) .. Depth
          BY <1>1, <1>9, <3>1, <4>1
        <5>2. QED
          BY <3>1, <3>2, <5>1 DEF IInv, SortInv, Nested
      <4>2. CASE m \in {Depth, Depth + 1}
        <5>1. InRange(p, Top)
          BY SMTT(30), <1>1, <1>4, <1>6, <1>7, <1>9, <3>2, <4>2 DEF InRange
        <5>2. QED
          BY <3>1, <5>1 DEF IInv, SortInv, Nested, Top
      <4>3. Depth \in Int /\ k \in Int /\ m \in (k + 1) .. (Depth + 1)
        BY <1>1
      <4>4. m \in (k + 1) .. (Depth - 1) \/ m \in {Depth, Depth + 1}
        BY <4>3
      <4>5. QED
        BY <4>1, <4>2, <4>4, Zenon
    <3>3. stack[k].right - stack[k].left + 1 <= count - k + 1
      BY <3>1 DEF IInv, SortInv, Nested
    <3>4. QED
      BY <3>1, <3>2, <3>3
  <2>6. QED
    BY <1>1, <2>3, <2>4, <2>5
<1>16. OrderedButPending'
  <2>1. SUFFICES ASSUME NEW p \in Positions, NEW q \in Positions, p < q
                 PROVE  \/ text[array'[p]] <= text[array'[q]]
                        \/ \E k \in 1 .. (Depth + 1) :
                             p \in Pending(stack'[k]) /\ q \in Pending(stack'[k])
    BY <1>2, <1>3, <1>9 DEF OrderedButPending
  <2>2. CASE ~(InRange(p, Top) /\ InRange(q, Top))
    <3>1. \/ text[array'[p]] <= text[array'[q]]
          \/ \E k \in 1 .. (Depth - 1) : p \in Pending(stack[k]) /\ q \in Pending(stack[k])
      BY <1>10, <2>1, <2>2 DEF Exchanged
    <3>2. \A k \in 1 .. (Depth - 1) : k \in 1 .. (Depth + 1) /\ stack'[k] = stack[k]
      BY <1>1, <1>9
    <3>3. QED
      BY <3>1, <3>2
  <2>3. CASE InRange(p, Top) /\ InRange(q, Top)
    <3>1. \A r \in Positions :
            /\ r # idx /\ r # Top.right => array'[r] = array[r]
            /\ text[array'[r]] \in Int
      BY <1>1, <1>10 DEF Exchanged
    <3>2. text[pivot] \in Int /\ array'[idx] = pivot /\ array'[Top.right] = array[idx]
      BY <1>1, <1>4, <1>10 DEF Exchanged
    <3>3. \A r \in Positions : Top.left <= r /\ r < idx => text[array'[r]] < text[pivot]
      <4>1. SUFFICES ASSUME NEW r \in Positions, Top.left <= r, r < idx
                     PROVE  text[array'[r]] < text[pivot]
        OBVIOUS
      <4>2. r \in Top.left .. (idx - 1) /\ r # idx /\ r # Top.right
        BY <1>1, <1>4, <4>1
      <4>3. QED
        BY <1>1, <1>2, <3>1, <4>2 DEF IInv, SortInv, LoopInv
    <3>4. \A r \in Positions : idx < r /\ r <= Top.right => text[array'[r]] >= text[pivot]
      <4>1. SUFFICES ASSUME NEW r \in Positions, idx < r, r <= Top.right
                     PROVE  text[array'[r]] >= text[pivot]
        OBVIOUS
      <4>2. \A s \in idx .. (i - 1) : text[array[s]] >= text[pivot]
        BY <1>1, <1>2 DEF IInv, SortInv, LoopInv
      <4>3. CASE r = Top.right
        <5>1. idx \in idx .. (i - 1)
          BY <1>1, <1>4, <4>1
        <5>2. QED
          BY <3>2, <4>2, <4>3, <5>1
      <4>4. CASE r # Top.right
        <5>1. r \in idx .. (i - 1) /\ r # idx
          BY <1>1, <1>4, <4>1, <4>4
        <5>2. QED
          BY <3>1, <4>2, <4>4, <5>1
      <4>5. QED
        BY <4>3, <4>4
    <3>5. p \in Int /\ q \in Int /\ Top.left <= p /\ q <= Top.right
      BY <1>1, <2>3 DEF InRange
    <3>6. CASE q < idx
      <4>1. p \in Pending(c) /\ q \in Pending(c)
        BY <1>1, <1>4, <1>7, <2>1, <3>5, <3>6 DEF Pending
      <4>2. Depth + 1 \in 1 .. (Depth + 1)
        BY <1>1
      <4>3. QED
        BY <1>9, <4>1, <4>2
    <3>7. CASE p > idx
      <4>1. p \in Pending(f) /\ q \in Pending(f)
        BY <1>1, <1>4, <1>6, <2>1, <3>5, <3>7 DEF Pending
      <4>2. Depth \in 1 .. (Depth + 1)
        BY <1>1
      <4>3. QED
        BY <1>9, <4>1, <4>2
    <3>8. CASE p <= idx /\ idx <= q
      <4>1. text[array'[p]] <= text[pivot]
        BY <1>4, <3>1, <3>2, <3>3, <3>5, <3>8
      <4>2. text[array'[q]] >= text[pivot]
        BY <1>4, <3>1, <3>2, <3>4, <3>5, <3>8
      <4>3. QED
        BY <3>1, <3>2, <4>1, <4>2
    <3>9. QED
      BY <1>4, <3>5, <3>6, <3>7, <3>8
  <2>4. QED
    BY <2>2, <2>3
<1>17. QED
  BY <1>1, <1>2, <1>9, <1>11, <1>12, <1>13, <1>14, <1>15, <1>16 DEF IInv, SortInv
LEMMA SecondCallKeepsIInv == IInv /\ SecondCall => IInv'
<1> SUFFICES ASSUME IInv, SecondCall PROVE IInv'
  OBVIOUS
<1> DEFINE f == [Top EXCEPT !.at = "right"]
           c == Call(Top.partition_index + 1, Top.right)
<1>1. /\ count \in Nat
      /\ Depth \in Nat /\ Depth > 0 /\ Depth = Len(stack)
      /\ stack \in Seq(Frame) /\ stack # <<>>
      /\ Top \in Frame /\ Top.left \in Int /\ Top.right \in Int
      /\ Top.partition_index \in Int
      /\ phase = "sorting" /\ count > 1
      /\ \A p \in Positions : p \in Int
  BY StackFacts DEF SecondCall
<1>2. /\ count' = count /\ text' = text /\ phase' = phase /\ array' = array
      /\ idx' = idx /\ i' = i /\ pivot' = pivot
      /\ Top.at = "left"
  BY DEF SecondCall
<1>3. Positions' = Positions /\ Frame' = Frame
  BY <1>2 DEF Positions, Frame
<1>4. /\ Top.left <= Top.partition_index /\ Top.partition_index <= Top.right
      /\ Top.left < Top.right /\ Top.left >= 0 /\ Top.right < count
  <2>1. /\ Top.left <= Top.partition_index /\ Top.partition_index <= Top.right
        /\ Top.left < Top.right
    BY <1>1, <1>2 DEF IInv, SortInv, CallersWait, Top
  <2>2. QED
    BY <1>1, <2>1 DEF Frame
<1>5. /\ f \in Frame /\ f.left = Top.left /\ f.right = Top.right
      /\ f.at = "right" /\ f.partition_index = Top.partition_index
  <2>1. "right" \in Points
    BY DEF Points
  <2>2. QED
    BY <1>1, <2>1 DEF Frame
<1>6. /\ c \in Frame /\ c.left = Top.partition_index + 1 /\ c.right = Top.right
      /\ c.at = "entered"
  BY <1>1, <1>4 DEF Frame, Points, Call
<1>7. stack' = Append([stack EXCEPT ![Depth] = f], c)
  BY DEF SecondCall, Top
<1> HIDE DEF f, c
<1>8. /\ stack' \in Seq(Frame) /\ stack' # <<>> /\ Depth' = Depth + 1
      /\ stack'[Depth + 1] = c /\ Top' = c /\ stack'[Depth] = f
      /\ \A k \in 1 .. (Depth - 1) : stack'[k] = stack[k]
  BY <1>1, <1>5, <1>6, <1>7, ReplaceAndPush DEF Depth, Top
<1>9. TypeOK'
  <2>1. ASSUME NEW k \in 1 .. (Depth + 1)
        PROVE  stack'[k].left <= stack'[k].right + 1
    <3>1. CASE k = Depth + 1
      BY <1>1, <1>4, <1>6, <1>8, <3>1
    <3>2. CASE k = Depth
      BY <1>1, <1>4, <1>5, <1>8, <3>2
    <3>3. CASE k \in 1 .. (Depth - 1)
      BY <1>1, <1>8, <3>3 DEF IInv, TypeOK
    <3>4. QED
      BY <1>1, <3>1, <3>2, <3>3
  <2>2. QED
    BY <1>2, <1>3, <1>8, <2>1 DEF IInv, TypeOK
<1>10. NoWordLost'
  BY <1>2, <1>3 DEF IInv, NoWordLost
<1>11. PartitionInRange' /\ LoopInv'
  BY <1>6, <1>8 DEF PartitionInRange, LoopInv
<1>12. CallersWait'
  <2>1. SUFFICES ASSUME NEW k \in 1 .. (Depth + 1)
                 PROVE  /\ k < Depth + 1 => stack'[k].at \in {"left", "right"}
                        /\ stack'[k].at # "entered" => stack'[k].left < stack'[k].right
                        /\ stack'[k].at \in {"left", "right"} =>
                             /\ stack'[k].left <= stack'[k].partition_index
                             /\ stack'[k].partition_index <= stack'[k].right
    BY <1>8 DEF CallersWait
  <2>2. CASE k = Depth + 1
    BY <1>1, <1>6, <1>8, <2>2
  <2>3. CASE k = Depth
    BY <1>1, <1>4, <1>5, <1>8, <2>3
  <2>4. CASE k \in 1 .. (Depth - 1)
    <3>1. k \in 1 .. Depth /\ k < Depth
      BY <1>1, <2>4
    <3>2. QED
      BY <1>8, <2>4, <3>1 DEF IInv, SortInv, CallersWait
  <2>5. QED
    BY <1>1, <2>2, <2>3, <2>4
<1>13. Nested'
  <2>1. SUFFICES ASSUME NEW k \in 1 .. (Depth + 1)
                 PROVE  /\ stack'[k].right - stack'[k].left + 1 <= count - k + 1
                        /\ \A m \in (k + 1) .. (Depth + 1) : \A p \in Positions :
                             InRange(p, stack'[m]) => InCall(p, stack'[k])
    BY <1>2, <1>3, <1>8 DEF Nested
  <2>2. Top.right - Top.left + 1 <= count - Depth + 1
    BY <1>1 DEF IInv, SortInv, Nested, Top
  <2>3. CASE k = Depth + 1
    <3>1. stack'[k].right = Top.right /\ stack'[k].left = Top.partition_index + 1
      BY <1>6, <1>8, <2>3
    <3>2. (k + 1) .. (Depth + 1) = {}
      BY <1>1, <2>3
    <3>3. QED
      BY <1>1, <1>4, <2>2, <2>3, <3>1, <3>2
  <2>4. CASE k = Depth
    <3>1. \A p \in Positions : InRange(p, c) => InCall(p, f)
      BY <1>1, <1>4, <1>5, <1>6 DEF InRange, InCall
    <3>2. \A m \in (k + 1) .. (Depth + 1) : stack'[m] = c
      BY <1>1, <1>8, <2>4
    <3>3. stack'[k].right - stack'[k].left + 1 <= count - k + 1
      BY <1>1, <1>5, <1>8, <2>2, <2>4
    <3>4. QED
      BY <1>8, <2>4, <3>1, <3>2, <3>3
  <2>5. CASE k \in 1 .. (Depth - 1)
    <3>1. k \in 1 .. Depth /\ stack'[k] = stack[k] /\ Depth \in (k + 1) .. Depth
      BY <1>1, <1>8, <2>5
    <3>2. ASSUME NEW m \in (k + 1) .. (Depth + 1), NEW p \in Positions,
                 InRange(p, stack'[m])
          PROVE  InCall(p, stack[k])
      <4>1. CASE m \in (k + 1) .. (Depth - 1)
        <5>1. stack'[m] = stack[m] /\ m \in (k + 1) .. Depth
          BY <1>1, <1>8, <3>1, <4>1
        <5>2. QED
          BY <3>1, <3>2, <5>1 DEF IInv, SortInv, Nested
      <4>2. CASE m \in {Depth, Depth + 1}
        <5>1. InRange(p, Top)
          BY SMTT(30), <1>1, <1>4, <1>5, <1>6, <1>8, <3>2, <4>2 DEF InRange
        <5>2. QED
          BY <3>1, <5>1 DEF IInv, SortInv, Nested, Top
      <4>3. Depth \in Int /\ k \in Int /\ m \in (k + 1) .. (Depth + 1)
        BY <1>1
      <4>4. m \in (k + 1) .. (Depth - 1) \/ m \in {Depth, Depth + 1}
        BY <4>3
      <4>5. QED
        BY <4>1, <4>2, <4>4, Zenon
    <3>3. stack[k].right - stack[k].left + 1 <= count - k + 1
      BY <3>1 DEF IInv, SortInv, Nested
    <3>4. QED
      BY <3>1, <3>2, <3>3
  <2>6. QED
    BY <1>1, <2>3, <2>4, <2>5
<1>14. OrderedButPending'
  <2>1. SUFFICES ASSUME NEW p \in Positions, NEW q \in Positions, p < q
                 PROVE  \/ text[array[p]] <= text[array[q]]
                        \/ \E k \in 1 .. (Depth + 1) :
                             p \in Pending(stack'[k]) /\ q \in Pending(stack'[k])
    BY <1>2, <1>3, <1>8 DEF OrderedButPending
  <2>2. \/ text[array[p]] <= text[array[q]]
        \/ \E k \in 1 .. Depth : p \in Pending(stack[k]) /\ q \in Pending(stack[k])
    BY <1>1, <2>1 DEF IInv, SortInv, OrderedButPending
  <2>3. ASSUME NEW k \in 1 .. Depth
        PROVE  \E m \in 1 .. (Depth + 1) : Pending(stack'[m]) = Pending(stack[k])
    <3>1. CASE k = Depth
      <4>1. Pending(c) = Pending(Top)
        BY <1>2, <1>6 DEF Pending
      <4>2. Depth + 1 \in 1 .. (Depth + 1)
        BY <1>1
      <4>3. QED
        BY <1>8, <3>1, <4>1, <4>2 DEF Top
    <3>2. CASE k # Depth
      <4>1. k \in 1 .. (Depth - 1) /\ k \in 1 .. (Depth + 1)
        BY <1>1, <3>2
      <4>2. QED
        BY <1>8, <4>1
    <3>3. QED
      BY <3>1, <3>2
  <2>4. QED
    BY <2>2, <2>3
<1>15. QED
  BY <1>1, <1>2, <1>8, <1>9, <1>10, <1>11, <1>12, <1>13, <1>14 DEF IInv, SortInv

LEMMA ReturnKeepsIInv == IInv /\ Return => IInv'
<1> SUFFICES ASSUME IInv, Return PROVE IInv'
  OBVIOUS
<1>1. /\ count \in Nat
      /\ Depth \in Nat /\ Depth > 0 /\ Depth = Len(stack)
      /\ stack \in Seq(Frame) /\ stack # <<>>
      /\ Top.left \in Int /\ Top.right \in Int
      /\ phase = "sorting" /\ count > 1
      /\ \A p \in Positions : p \in Int
  BY StackFacts DEF Return
<1>2. /\ count' = count /\ text' = text /\ array' = array
      /\ idx' = idx /\ i' = i /\ pivot' = pivot
      /\ (Top.at = "entered" /\ Top.left >= Top.right) \/ Top.at = "right"
      /\ phase' = (IF Depth = 1 THEN "returned" ELSE phase)
  BY DEF Return
<1>3. Positions' = Positions /\ Frame' = Frame
  BY <1>2 DEF Positions, Frame
<1>4. stack' = SubSeq(stack, 1, Depth - 1)
  BY DEF Return
<1>5. /\ stack' \in Seq(Frame) /\ Depth' = Depth - 1
      /\ stack' = <<>> <=> Depth = 1
      /\ \A k \in 1 .. (Depth - 1) : stack'[k] = stack[k]
  <2>1. /\ stack' \in Seq(Frame) /\ Len(stack') = Depth - 1
        /\ stack' = <<>> <=> Depth = 1
        /\ \A k \in 1 .. (Depth - 1) : stack'[k] = stack[k]
    BY ZenonT(30), <1>1, <1>4, Pop
  <2>2. Depth' = Len(stack')
    BY DEF Depth
  <2>3. QED
    BY <2>1, <2>2, Zenon
<1>6. \A k \in 1 .. (Depth - 1) : k \in 1 .. Depth /\ k < Depth
  BY <1>1
<1>7. TypeOK'
  <2>1. \A k \in 1 .. Depth' : stack'[k].left <= stack'[k].right + 1
    BY <1>5, <1>6 DEF IInv, TypeOK
  <2>2. phase' \in {"called", "sorting", "returned"}
    BY <1>1, <1>2
  <2>3. QED
    BY <1>2, <1>3, <1>5, <2>1, <2>2 DEF IInv, TypeOK
<1>8. NoWordLost'
  BY <1>2, <1>3 DEF IInv, NoWordLost
<1>9. PartitionInRange' /\ LoopInv'
  <2>1. ASSUME stack' # <<>> PROVE Top'.at \in {"left", "right"}
    <3>1. Depth - 1 \in 1 .. (Depth - 1)
      BY <1>1, <1>5, <2>1
    <3>2. QED
      BY <1>5, <1>6, <3>1 DEF IInv, SortInv, CallersWait, Top
  <2>2. QED
    BY <2>1 DEF PartitionInRange, LoopInv
<1>10. CallersWait'
  <2>1. ASSUME NEW k \in 1 .. (Depth - 1)
        PROVE  /\ stack'[k].at \in {"left", "right"}
               /\ stack'[k].at # "entered" => stack'[k].left < stack'[k].right
               /\ stack'[k].at \in {"left", "right"} =>
                    /\ stack'[k].left <= stack'[k].partition_index
                    /\ stack'[k].partition_index <= stack'[k].right
    BY <1>5, <1>6 DEF IInv, SortInv, CallersWait
  <2>2. QED
    BY <1>5, <2>1 DEF CallersWait
<1>11. Nested'
  <2>1. SUFFICES ASSUME NEW k \in 1 .. (Depth - 1)
                 PROVE  /\ stack[k].right - stack[k].left + 1 <= count - k + 1
                        /\ \A m \in (k + 1) .. (Depth - 1) : \A p \in Positions :
                             InRange(p, stack'[m]) => InCall(p, stack[k])
    BY <1>2, <1>3, <1>5 DEF Nested
  <2>2. \A m \in (k + 1) .. (Depth - 1) :
           stack'[m] = stack[m] /\ m \in (k + 1) .. Depth
    BY <1>1, <1>5
  <2>3. QED
    BY <1>6, <2>2 DEF IInv, SortInv, Nested
<1>12. OrderedButPending'
  <2>1. SUFFICES ASSUME NEW p \in Positions, NEW q \in Positions, p < q
                 PROVE  \/ text[array[p]] <= text[array[q]]
                        \/ \E k \in 1 .. (Depth - 1) :
                             p \in Pending(stack'[k]) /\ q \in Pending(stack'[k])
    BY <1>2, <1>3, <1>5 DEF OrderedButPending
  <2>2. \/ text[array[p]] <= text[array[q]]
        \/ \E k \in 1 .. Depth : p \in Pending(stack[k]) /\ q \in Pending(stack[k])
    BY <1>1, <2>1 DEF IInv, SortInv, OrderedButPending
  <2>3. ~(p \in Pending(Top) /\ q \in Pending(Top))
    BY <1>1, <1>2, <2>1 DEF Pending
  <2>4. \A k \in 1 .. Depth : k # Depth => k \in 1 .. (Depth - 1)
    BY <1>1
  <2>5. QED
    BY <1>5, <2>2, <2>3, <2>4 DEF Top
<1>13. QED
  BY <1>1, <1>2, <1>5, <1>7, <1>8, <1>9, <1>10, <1>11, <1>12 DEF IInv, SortInv

LEMMA StutterKeepsIInv == IInv /\ UNCHANGED vars => IInv'
<1> SUFFICES ASSUME IInv, UNCHANGED vars PROVE IInv'
  OBVIOUS
<1>1. /\ count' = count /\ text' = text /\ array' = array /\ phase' = phase
      /\ stack' = stack /\ idx' = idx /\ i' = i /\ pivot' = pivot
  BY DEF vars
<1>2. /\ Positions' = Positions /\ Frame' = Frame /\ Depth' = Depth /\ Top' = Top
  BY <1>1 DEF Positions, Frame, Depth, Top
<1>3. TypeOK' /\ NoWordLost' /\ PartitionInRange'
  BY <1>1, <1>2 DEF IInv, TypeOK, NoWordLost, PartitionInRange
<1>4. CallersWait' /\ Nested' /\ OrderedButPending' /\ LoopInv'
  BY <1>1, <1>2 DEF IInv, SortInv, CallersWait, Nested, OrderedButPending, LoopInv
<1>5. QED
  BY <1>1, <1>3, <1>4 DEF IInv, SortInv

(* The invariant holds in every reachable state.                            *)
THEOREM Invariance == Spec => []IInv
<1>1. IInv /\ [Next]_vars => IInv'
  BY CallKeepsIInv, PartitionKeepsIInv, CompareKeepsIInv, PlacePivotKeepsIInv,
     SecondCallKeepsIInv, ReturnKeepsIInv, StutterKeepsIInv
     DEF Next, Returned
<1>2. QED
  BY InitIInv, <1>1, PTL DEF Spec

(***************************************************************************)
(* What the invariant implies.                                             *)
(***************************************************************************)

(* Every variable keeps its type: quick_sort_words leaves no activation     *)
(* with bounds outside the array.                                           *)
THEOREM TypeCorrect == Spec => []TypeOK
<1>1. IInv => TypeOK
  BY DEF IInv
<1>2. QED
  BY Invariance, <1>1, PTL

(* The exchanges of partition_words lose and double no pointer.             *)
THEOREM WordsKept == Spec => []NoWordLost
<1>1. IInv => NoWordLost
  BY DEF IInv
<1>2. QED
  BY Invariance, <1>1, PTL

(* partition_words never reads or writes outside the range of its call.     *)
THEOREM PartitionStaysInRange == Spec => []PartitionInRange
<1>1. IInv => PartitionInRange
  BY DEF IInv
<1>2. QED
  BY Invariance, <1>1, PTL

(* When quick_sort_words has returned the array is in the order of strcmp.  *)
LEMMA IInvSorted == IInv => SortedWhenReturned
<1> SUFFICES ASSUME IInv, phase = "returned",
                    NEW p \in Positions, NEW q \in Positions, p < q
             PROVE  text[array[p]] <= text[array[q]]
  BY DEF SortedWhenReturned
<1>1. stack = <<>>
  BY DEF IInv, SortInv
<1>2. Depth = 0
  BY <1>1 DEF Depth
<1>3. QED
  BY <1>2 DEF IInv, SortInv, OrderedButPending

THEOREM SortsTheWords == Spec => []SortedWhenReturned
BY Invariance, IInvSorted, PTL

(* quick_sort_recursive is never active more often than there are words.    *)
THEOREM DepthIsBounded == Spec => []DepthBounded
<1>1. IInv => DepthBounded
  <2> SUFFICES ASSUME IInv PROVE Depth <= count
    BY DEF DepthBounded
  <2>1. CASE stack = <<>>
    BY <2>1, CountsAssumption DEF Depth, IInv, TypeOK
  <2>2. CASE stack # <<>>
    <3>1. /\ count \in Nat /\ count > 1 /\ Depth \in Nat /\ Depth > 0
          /\ \A k \in 1 .. Depth : stack[k].left \in Int /\ stack[k].right \in Int
      BY <2>2, StackFacts
    <3>2. CASE Depth = 1
      BY <3>1, <3>2
    <3>3. CASE Depth > 1
      <4> DEFINE k == Depth - 1
      <4>1. k \in 1 .. Depth /\ k < Depth
        BY <3>1, <3>3
      <4>2. stack[k].left < stack[k].right
        BY <4>1 DEF IInv, SortInv, CallersWait
      <4>3. stack[k].right - stack[k].left + 1 <= count - k + 1
        BY <4>1 DEF IInv, SortInv, Nested
      <4>4. QED
        BY <3>1, <4>1, <4>2, <4>3
    <3>4. QED
      BY <3>1, <3>2, <3>3
  <2>3. QED
    BY <2>1, <2>2
<1>2. QED
  BY Invariance, <1>1, PTL

(* A step moves pointers only where an activation still has work to do.     *)
THEOREM PlacedStays == Spec => PlacedForGood
<1> DEFINE Kept ==
      \A p \in Positions :
        (phase = "sorting" /\ \A k \in 1 .. Depth : p \notin Pending(stack[k]))
          => array'[p] = array[p]
<1>1. IInv /\ [Next]_vars => [Kept]_vars
  <2> SUFFICES ASSUME IInv, Next PROVE Kept
    BY DEF Kept
  <2>1. CASE array' = array
    BY <2>1
  <2>2. CASE Compare \/ PlacePivot
    <3>1. stack # <<>> /\ Top.at = "partitioning"
      BY <2>2 DEF Compare, PlacePivot
    <3>2. /\ Depth \in Nat /\ Depth > 0 /\ count \in Nat
          /\ array \in [Positions -> Positions]
          /\ Top \in Frame /\ Top.left \in Int /\ Top.right \in Int
          /\ \A p \in Positions : p \in Int
      BY <3>1, StackFacts
    <3>3. /\ Top.left <= idx /\ idx <= i /\ i <= Top.right
          /\ idx \in Int /\ i \in Int
      BY <3>1 DEF IInv, PartitionInRange, TypeOK
    <3>4. SUFFICES ASSUME NEW p \in Positions, p \notin Pending(Top)
                   PROVE  array'[p] = array[p]
      BY <3>2 DEF Top
    <3>5. p # idx /\ p # i /\ p # Top.right
      BY <3>1, <3>2, <3>3, <3>4 DEF Pending
    <3>6. QED
      BY <2>2, <3>2, <3>4, <3>5 DEF Compare, PlacePivot, swap_words
  <2>3. QED
    BY <2>1, <2>2
       DEF Next, quick_sort_words, Partition, SecondCall, Return, Returned, vars
<1>2. QED
  BY Invariance, <1>1, PTL DEF Spec, PlacedForGood

(* quick_sort_words implements the sort that WordList is written against.   *)
THEOREM ImplementsSorting == Spec => Contract
<1>1. Init => S!Init
  BY DEF Init, InputInit, S!Init, Positions, S!Positions
<1>2. IInv /\ [Next]_vars => [S!Next]_<<count, text, array, phase = "returned">>
  <2> SUFFICES ASSUME IInv, [Next]_vars,
                      ~ UNCHANGED <<count, text, array, phase = "returned">>
               PROVE  S!Next
    OBVIOUS
  <2>1. IInv'
    BY CallKeepsIInv, PartitionKeepsIInv, CompareKeepsIInv, PlacePivotKeepsIInv,
       SecondCallKeepsIInv, ReturnKeepsIInv, StutterKeepsIInv
       DEF Next, Returned
  <2>2. CASE Compare \/ PlacePivot
    <3>1. /\ count' = count /\ text' = text /\ phase' = phase /\ phase = "sorting"
      BY <2>2, StackFacts DEF Compare, PlacePivot
    <3>2. Positions' = Positions
      BY <3>1 DEF Positions
    <3>3. array' \in [Positions -> Positions] /\ NoWordLost'
      BY <2>1, <3>2 DEF IInv, TypeOK
    <3>4. S!Rearrange
      BY <3>1, <3>3
         DEF S!Rearrange, S!NoWordLost, NoWordLost, S!Positions, Positions
    <3>5. QED
      BY <3>4 DEF S!Next
  <2>3. CASE quick_sort_words \/ Return
    <3>1. /\ count' = count /\ text' = text /\ array' = array
          /\ phase # "returned"
      BY <2>3, StackFacts DEF quick_sort_words, Return
    <3>2. phase' = "returned"
      BY <2>3, <3>1
    <3>3. SortedWhenReturned'
      BY <2>1, IInvSorted, PTL
    <3>4. S!Sorted
      BY <3>1, <3>2, <3>3 DEF SortedWhenReturned, S!Sorted, S!Positions, Positions
    <3>5. S!Return
      BY <3>1, <3>2, <3>4 DEF S!Return
    <3>6. QED
      BY <3>5 DEF S!Next
  <2>4. QED
    BY <2>2, <2>3 DEF Next, Partition, SecondCall, Returned, vars
<1>3. QED
  BY Invariance, <1>1, <1>2, PTL DEF Spec, Contract, S!Spec

(***************************************************************************)
(* insertion_sort, the other sequential sort, with variables of its own:   *)
(* it sorts arrays of every length and implements Sorting.                 *)
(***************************************************************************)
USE DEF Ins!Positions, Ins!input

\* The loops start at the second word and end behind the last.
InsLoopBounds ==
  /\ ins_at = "outer" => ins_i >= 1
  /\ ins_at = "returned" => ins_i >= count

InsInv == Ins!TypeOK /\ Ins!NoWordLost /\ Ins!PrefixSorted /\ InsLoopBounds

LEMMA InsertionInit == Ins!Init => InsInv
  BY CountsAssumption
  DEF Ins!Init, Ins!InputInit, InsInv, Ins!TypeOK, Ins!NoWordLost, Ins!PrefixSorted, InsLoopBounds, Ins!Filled

\* Taking a word leaves the array alone: the gap is where the word is.
LEMMA TakeKeepsInsInv == InsInv /\ Ins!Take => InsInv' /\ Ins!Filled' = Ins!Filled
<1> SUFFICES ASSUME InsInv, Ins!Take PROVE InsInv' /\ Ins!Filled' = Ins!Filled
  OBVIOUS
<1>0. count \in Nat /\ count' = count /\ text' = text /\ ins_array' = ins_array /\ ins_i' = ins_i
  BY CountsAssumption DEF InsInv, Ins!Take, Ins!TypeOK
<1>1. /\ ins_at = "outer" /\ ins_at' = "inner" /\ ins_j' = ins_i /\ ins_key' = ins_array[ins_i]
      /\ ins_i \in Ins!Positions /\ ins_i >= 1 /\ ins_array \in [Ins!Positions -> Ins!Positions]
  <2>1. ins_at = "outer" /\ ins_at' = "inner" /\ ins_j' = ins_i /\ ins_key' = ins_array[ins_i] /\ ins_i < count
    BY DEF Ins!Take
  <2>2. ins_i \in Nat /\ ins_i >= 1 /\ ins_array \in [Ins!Positions -> Ins!Positions]
    BY <2>1 DEF InsLoopBounds, InsInv, Ins!TypeOK
  <2> QED
    BY <1>0, <2>1, <2>2
<1>2. Ins!Filled' = Ins!Filled
  BY <1>0, <1>1 DEF Ins!Filled
<1>3. Ins!TypeOK'
  BY <1>0, <1>1 DEF InsInv, Ins!TypeOK
<1>4. Ins!NoWordLost'
  BY <1>0, <1>2 DEF InsInv, Ins!NoWordLost
<1>5. Ins!PrefixSorted'
  BY <1>0, <1>1 DEF InsInv, Ins!PrefixSorted
<1>6. InsLoopBounds'
  BY <1>1 DEF InsLoopBounds
<1> QED
  BY <1>2, <1>3, <1>4, <1>5, <1>6 DEF InsInv

\* A move exchanges the gap with the word before it.
LEMMA MoveKeepsInsInv == InsInv /\ Ins!Move => InsInv'
<1> SUFFICES ASSUME InsInv, Ins!Move PROVE InsInv'
  OBVIOUS
<1>0. /\ count \in Nat /\ count' = count /\ text' = text /\ ins_i' = ins_i /\ ins_key' = ins_key
      /\ ins_at = "inner" /\ ins_at' = "inner"
      /\ ins_i \in Ins!Positions /\ ins_j \in 1 .. ins_i /\ ins_j' = ins_j - 1
      /\ ins_j \in Ins!Positions /\ ins_j - 1 \in Ins!Positions /\ ins_key \in Ins!Positions
  BY CountsAssumption DEF InsInv, Ins!Move, Ins!Moves, Ins!TypeOK
<1>f. ins_array \in [Ins!Positions -> Ins!Positions] /\ text \in [Ins!Positions -> Word]
  BY DEF InsInv, Ins!TypeOK
<1>g. text[ins_array[ins_j - 1]] > text[ins_key]
  BY DEF Ins!Move, Ins!Moves
<1>1. \A p \in Ins!Positions : ins_array'[p] = IF p = ins_j THEN ins_array[ins_j - 1] ELSE ins_array[p]
  BY <1>0, <1>f DEF Ins!Move
<1>h. ins_array' \in [Ins!Positions -> Ins!Positions]
  BY <1>0, <1>f DEF Ins!Move
<1>2. Ins!TypeOK'
  BY <1>0, <1>f, <1>h DEF InsInv, Ins!TypeOK
<1>3. Ins!NoWordLost'
  <2> SUFFICES ASSUME NEW w \in Ins!Positions PROVE \E p \in Ins!Positions : Ins!Filled'[p] = w
    BY <1>0 DEF Ins!NoWordLost
  <2>1. \A p \in Ins!Positions : Ins!Filled[p] = IF p = ins_j THEN ins_key ELSE ins_array[p]
    BY <1>0, <1>f DEF Ins!Filled
  <2>2. \A p \in Ins!Positions : Ins!Filled'[p] = IF p = ins_j - 1 THEN ins_key ELSE ins_array'[p]
    BY <1>0, <1>h DEF Ins!Filled
  <2>3. PICK p \in Ins!Positions : Ins!Filled[p] = w
    BY DEF InsInv, Ins!NoWordLost
  <2>4. CASE p = ins_j
    BY <2>1, <2>2, <2>3, <2>4, <1>0
  <2>5. CASE p = ins_j - 1
    BY <2>1, <2>2, <2>3, <2>5, <1>0, <1>1
  <2>6. CASE p # ins_j /\ p # ins_j - 1
    BY <2>1, <2>2, <2>3, <2>6, <1>0, <1>1
  <2> QED
    BY <2>4, <2>5, <2>6
<1>4. Ins!PrefixSorted'
  <2>1. ASSUME NEW p \in Ins!Positions, NEW q \in Ins!Positions, p < q, q <= ins_i
        PROVE text[ins_array'[p]] <= text[ins_array'[q]]
    <3>0. \A x, y \in Ins!Positions : (x < y /\ y < ins_i) => text[ins_array[x]] <= text[ins_array[y]]
      BY DEF InsInv, Ins!PrefixSorted
    <3>1. (ins_j < ins_i) => \A x \in Ins!Positions : x < ins_i => text[ins_array[x]] <= text[ins_array[ins_i]]
      BY <1>0 DEF InsInv, Ins!PrefixSorted
    <3>2. \A x \in Ins!Positions : text[ins_array[x]] \in Int
      BY <1>f, WordAssumption
    <3>3. CASE q = ins_j
      BY <3>0, <3>2, <3>3, <1>0, <1>1, <2>1
    <3>4. CASE q # ins_j /\ p = ins_j
      BY <3>0, <3>1, <3>2, <3>4, <1>0, <1>1, <2>1
    <3>5. CASE q # ins_j /\ p # ins_j
      BY <3>0, <3>1, <3>2, <3>5, <1>0, <1>1, <2>1
    <3> QED
      BY <3>3, <3>4, <3>5
  <2>2. ASSUME NEW p \in Ins!Positions, ins_j - 1 < p, p <= ins_i
        PROVE text[ins_array'[p]] > text[ins_key]
    <3>0. \A x \in Ins!Positions : (ins_j < x /\ x <= ins_i) => text[ins_array[x]] > text[ins_key]
      BY <1>0 DEF InsInv, Ins!PrefixSorted
    <3>1. CASE p = ins_j
      BY <1>0, <1>1, <1>g, <3>1
    <3>2. CASE p # ins_j
      BY <1>0, <1>1, <2>2, <3>0, <3>2
    <3> QED
      BY <3>1, <3>2
  <2>3. \A p, q \in Ins!Positions : (p < q /\ q <= ins_i) => text[ins_array'[p]] <= text[ins_array'[q]]
    BY <2>1
  <2>4. \A p \in Ins!Positions : (ins_j - 1 < p /\ p <= ins_i) => text[ins_array'[p]] > text[ins_key]
    BY <2>2
  <2> QED
    BY <1>0, <2>3, <2>4 DEF Ins!PrefixSorted
<1>5. InsLoopBounds'
  BY <1>0 DEF InsLoopBounds
<1> QED
  BY <1>2, <1>3, <1>4, <1>5 DEF InsInv

\* The word fills the gap, between what is not larger and what is.
LEMMA InsertKeepsInsInv == InsInv /\ Ins!Insert => InsInv' /\ Ins!Filled' = Ins!Filled
<1> SUFFICES ASSUME InsInv, Ins!Insert PROVE InsInv' /\ Ins!Filled' = Ins!Filled
  OBVIOUS
<1>0. /\ count \in Nat /\ count' = count /\ text' = text /\ ins_i' = ins_i + 1
      /\ ins_j' = ins_j /\ ins_key' = ins_key
      /\ ins_at = "inner" /\ ins_at' = "outer"
      /\ ins_i \in Ins!Positions /\ ins_j \in 0 .. ins_i /\ ins_j \in Ins!Positions /\ ins_key \in Ins!Positions
  BY CountsAssumption DEF InsInv, Ins!Insert, Ins!TypeOK
<1>f. ins_array \in [Ins!Positions -> Ins!Positions] /\ text \in [Ins!Positions -> Word]
  BY DEF InsInv, Ins!TypeOK
<1>1. /\ ins_array' \in [Ins!Positions -> Ins!Positions]
      /\ \A p \in Ins!Positions : ins_array'[p] = IF p = ins_j THEN ins_key ELSE ins_array[p]
  BY <1>0, <1>f DEF Ins!Insert
<1>2. Ins!Filled' = Ins!Filled
  BY <1>0, <1>f DEF Ins!Filled, Ins!Insert
<1>3. Ins!TypeOK'
  BY <1>0, <1>f, <1>1 DEF InsInv, Ins!TypeOK
<1>4. Ins!NoWordLost'
  BY <1>0, <1>2 DEF InsInv, Ins!NoWordLost
<1>5. Ins!PrefixSorted'
  <2>0. (\A x \in Ins!Positions : text[ins_array[x]] \in Int) /\ text[ins_key] \in Int
    BY <1>0, <1>f, WordAssumption
  <2>1. \A x, y \in Ins!Positions : (x < y /\ y < ins_i) => text[ins_array[x]] <= text[ins_array[y]]
    BY DEF InsInv, Ins!PrefixSorted
  <2>2. (ins_j < ins_i) => \A x \in Ins!Positions : x < ins_i => text[ins_array[x]] <= text[ins_array[ins_i]]
    BY <1>0 DEF InsInv, Ins!PrefixSorted
  <2>3. \A x \in Ins!Positions : (ins_j < x /\ x <= ins_i) => text[ins_array[x]] > text[ins_key]
    BY <1>0 DEF InsInv, Ins!PrefixSorted
  <2>4. \A x \in Ins!Positions : x < ins_j => text[ins_array[x]] <= text[ins_key]
    <3> SUFFICES ASSUME NEW x \in Ins!Positions, x < ins_j PROVE text[ins_array[x]] <= text[ins_key]
      OBVIOUS
    <3>1. ins_j - 1 \in Ins!Positions /\ text[ins_array[ins_j - 1]] <= text[ins_key]
      BY <1>0, <2>0 DEF Ins!Moves, Ins!Insert
    <3>2. text[ins_array[x]] <= text[ins_array[ins_j - 1]]
      BY <1>0, <2>0, <2>1, <3>1
    <3> QED
      BY <1>0, <2>0, <3>1, <3>2
  <2>5. ASSUME NEW p \in Ins!Positions, NEW q \in Ins!Positions, p < q, q <= ins_i
        PROVE text[ins_array'[p]] <= text[ins_array'[q]]
    <3>1. CASE p = ins_j
      <4>1. ins_array'[p] = ins_key /\ ins_array'[q] = ins_array[q]
        BY <1>1, <2>5, <3>1
      <4>2. text[ins_array[q]] > text[ins_key]
        BY <2>3, <2>5, <3>1
      <4> QED
        BY <2>0, <4>1, <4>2
    <3>2. CASE q = ins_j
      <4>1. ins_array'[q] = ins_key /\ ins_array'[p] = ins_array[p]
        BY <1>1, <2>5, <3>2
      <4> QED
        BY <2>4, <2>5, <3>2, <4>1
    <3>3. CASE p # ins_j /\ q # ins_j
      <4>1. ins_array'[p] = ins_array[p] /\ ins_array'[q] = ins_array[q]
        BY <1>1, <3>3
      <4>2. CASE q < ins_i
        BY <2>1, <2>5, <4>1, <4>2
      <4>3. CASE q = ins_i
        BY <1>0, <2>2, <2>5, <3>3, <4>1, <4>3
      <4> QED
        BY <1>0, <2>5, <4>2, <4>3
    <3> QED
      BY <3>1, <3>2, <3>3
  <2> QED
    BY <1>0, <2>5 DEF Ins!PrefixSorted
<1>6. InsLoopBounds'
  BY <1>0 DEF InsLoopBounds
<1> QED
  BY <1>2, <1>3, <1>4, <1>5, <1>6 DEF InsInv

LEMMA ReturnKeepsInsInv == InsInv /\ Ins!Return => InsInv' /\ Ins!Filled' = Ins!Filled
  BY CountsAssumption
  DEF InsInv, Ins!Return, Ins!TypeOK, Ins!NoWordLost, Ins!PrefixSorted, InsLoopBounds, Ins!Filled

LEMMA StutterKeepsInsInv == InsInv /\ UNCHANGED Ins!vars => InsInv' /\ Ins!Filled' = Ins!Filled
  BY SMTT(30) DEF InsInv, Ins!vars, Ins!TypeOK, Ins!NoWordLost, Ins!PrefixSorted, InsLoopBounds, Ins!Filled, Ins!Moves

\* The invariant holds in every state of insertion_sort.
THEOREM InsertionInvariance == Ins!Spec => []InsInv
<1>1. Ins!Init => InsInv
  BY InsertionInit
<1>2. InsInv /\ [Ins!Next]_(Ins!vars) => InsInv'
  BY TakeKeepsInsInv, MoveKeepsInsInv, InsertKeepsInsInv, ReturnKeepsInsInv, StutterKeepsInsInv
  DEF Ins!Next, Ins!Returned
<1> QED
  BY <1>1, <1>2, PTL DEF Ins!Spec

\* Every variable of insertion_sort holds what the code keeps in it, whatever the
\* length of the array.
THEOREM InsertionTypeCorrect == Ins!Spec => []Ins!TypeOK
<1>1. InsInv => Ins!TypeOK
  BY DEF InsInv
<1> QED
  BY <1>1, InsertionInvariance, PTL

\* With key in the gap no pointer is ever missing, so that a word moved over is never
\* lost.
THEOREM InsertionWordsKept == Ins!Spec => []Ins!NoWordLost
<1>1. InsInv => Ins!NoWordLost
  BY DEF InsInv
<1> QED
  BY <1>1, InsertionInvariance, PTL

\* The words before the gap and behind it are always in order.
THEOREM PrefixStaysSorted == Ins!Spec => []Ins!PrefixSorted
<1>1. InsInv => Ins!PrefixSorted
  BY DEF InsInv
<1> QED
  BY <1>1, InsertionInvariance, PTL

\* insertion_sort implements the sort WordList is written against.
THEOREM InsertionImplementsSorting == Ins!Spec => Ins!Contract
<1>1. Ins!Init => Ins!S!Init
  BY DEF Ins!Init, Ins!InputInit, Ins!S!Init, Ins!S!Positions, Ins!Filled
<1>2. InsInv /\ InsInv' /\ [Ins!Next]_(Ins!vars) => [Ins!S!Next]_<<count, text, Ins!Filled, ins_at = "returned">>
  <2> SUFFICES ASSUME InsInv, InsInv', [Ins!Next]_(Ins!vars)
               PROVE [Ins!S!Next]_<<count, text, Ins!Filled, ins_at = "returned">>
    OBVIOUS
  <2>1. CASE Ins!Take
    BY <2>1, TakeKeepsInsInv DEF Ins!Take
  <2>2. CASE Ins!Move
    <3>1. Ins!Filled' \in [Ins!Positions -> Ins!Positions]
      BY <2>2, CountsAssumption DEF Ins!Move, Ins!Filled, InsInv, Ins!TypeOK
    <3>2. Ins!NoWordLost'
      BY DEF InsInv
    <3>3. Ins!S!Rearrange
      BY <2>2, <3>1, <3>2 DEF Ins!Move, Ins!S!Rearrange, Ins!S!NoWordLost, Ins!S!Positions, Ins!NoWordLost
    <3> QED
      BY <3>3 DEF Ins!S!Next
  <2>3. CASE Ins!Insert
    BY <2>3, InsertKeepsInsInv DEF Ins!Insert
  <2>4. CASE Ins!Return
    <3>1. Ins!Filled = ins_array /\ Ins!Filled' = Ins!Filled
      BY <2>4 DEF Ins!Return, Ins!Filled
    <3>2. \A p, q \in Ins!Positions : p < q => text[ins_array[p]] <= text[ins_array[q]]
      BY <2>4, CountsAssumption DEF Ins!Return, InsInv, Ins!TypeOK, Ins!PrefixSorted
    <3> QED
      BY <2>4, <3>1, <3>2 DEF Ins!Return, Ins!S!Next, Ins!S!Return, Ins!S!Sorted, Ins!S!Positions
  <2>5. CASE Ins!Returned \/ UNCHANGED Ins!vars
    BY <2>5, StutterKeepsInsInv DEF Ins!Returned, Ins!vars
  <2> QED
    BY <2>1, <2>2, <2>3, <2>4, <2>5 DEF Ins!Next
<1> QED
  BY <1>1, <1>2, InsertionInvariance, PTL DEF Ins!Spec, Ins!Contract, Ins!S!Spec

\* After quick_sort_words, too: the two sorts share nothing but the words.
LEMMA SortsAreApart == SortsSpec => Ins!Spec
<1>1. SortsInit => Ins!Init
  BY DEF SortsInit
<1>2. [SortsNext]_<<vars, ins_vars>> => [Ins!Next]_(Ins!vars)
  <2>1. Next \/ UNCHANGED vars => UNCHANGED <<count, text>>
    BY DEF Next, quick_sort_words, Partition, Compare, PlacePivot, SecondCall, Return, Returned, vars
  <2> QED
    BY <2>1 DEF SortsNext, ins_vars, Ins!vars
<1> QED
  BY <1>1, <1>2, PTL DEF SortsSpec, Ins!Spec

\* insertion_sort keeps its promise on every array quick_sort_words is called with.
THEOREM InsertionSorts == SortsSpec => InsertionContract
  BY SortsAreApart, InsertionImplementsSorting DEF InsertionContract
==============================================================================
