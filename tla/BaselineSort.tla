---------------------------- MODULE BaselineSort -----------------------------
(***************************************************************************)
(* SequentialSortUniqueWords of src/baseline.c: a quicksort that drops     *)
(* duplicates while it sorts.  partition replaces a word equal to its      *)
(* pivot by NULL, and the loop after the sort closes the gaps.             *)
(*                                                                         *)
(* As in QuickSort a pointer is the position its word has at the call, and *)
(* "stack" is the C stack of quicksort_recursive.                          *)
(***************************************************************************)
EXTENDS Integers, Sequences

CONSTANTS Counts, Word

ASSUME CountsAssumption == Counts \subseteq Nat
ASSUME WordAssumption   == Word \subseteq Int

VARIABLES
  text,     \* text[p]: the word behind pointer p
  array,    \* *words
  count,    \* *count
  phase,    \* "called", "sorting", "compacting" or "returned"
  stack,    \* activations of quicksort_recursive
  idx, i,   \* locals of partition; i also of the last loop
  pivot,    \* local of partition
  j         \* the last loop: the words kept so far

vars == <<text, array, count, phase, stack, idx, i, pivot, j>>

NULL      == -1
Positions == DOMAIN text

\* An activation has been entered, is in partition, or in one of its two calls: at is
\* "entered", "partitioning", "left" or "right".
Call(l, r) == [left |-> l, right |-> r, at |-> "entered", partition_index |-> l]

Depth == Len(stack)
Top   == stack[Depth]

\* A faulty exchange that forgets temp.
swap_no_temp(a, p, q) == [a EXCEPT ![p] = a[q]]

swap(a, p, q) == [a EXCEPT ![p] = a[q], ![q] = a[p]]

\* A faulty marking that forgets the duplicates.
Mark_none(a, p) == a

\* A duplicate of the pivot becomes NULL.
Mark(a, p) == IF a[p] # NULL /\ text[a[p]] = text[pivot] THEN [a EXCEPT ![p] = NULL] ELSE a

------------------------------------------------------------------------------
Init ==
  /\ count \in Counts
  /\ text \in [0 .. (count - 1) -> Word]
  /\ array = [p \in 0 .. (count - 1) |-> p]
  /\ phase = "called"
  /\ stack = <<>>
  /\ idx = 0 /\ i = 0 /\ pivot = 0 /\ j = 0

SequentialSortUniqueWords ==
  /\ phase = "called"
  /\ IF count <= 1
     THEN phase' = "returned" /\ UNCHANGED stack
     ELSE phase' = "sorting" /\ stack' = <<Call(0, count - 1)>>
  /\ UNCHANGED <<text, array, count, idx, i, pivot, j>>

\* partition has put the pivot at p; the first recursive call starts.
PartitionReturns(p) ==
  stack' = Append([stack EXCEPT ![Depth].at = "left", ![Depth].partition_index = p],
                  Call(Top.left, p - 1))

\* A NULL pivot is not compared with anything: it goes to the front.
NullPivot ==
  /\ stack # <<>> /\ Top.at = "entered" /\ Top.left < Top.right
  /\ array[Top.right] = NULL
  /\ array' = swap(array, Top.left, Top.right)
  /\ PartitionReturns(Top.left)
  /\ UNCHANGED <<text, count, phase, idx, i, pivot, j>>

Partition ==
  /\ stack # <<>> /\ Top.at = "entered" /\ Top.left < Top.right
  /\ array[Top.right] # NULL
  /\ stack' = [stack EXCEPT ![Depth].at = "partitioning"]
  /\ idx' = Top.left /\ i' = Top.left /\ pivot' = array[Top.right]
  /\ UNCHANGED <<text, array, count, phase, j>>

\* A faulty loop that does not go on after a NULL.
Compare_null_stuck ==
  /\ stack # <<>> /\ Top.at = "partitioning" /\ i < Top.right
  /\ IF array[i] # NULL /\ text[array[i]] > text[pivot]
     THEN UNCHANGED <<array, idx>>
     ELSE IF array[i] = NULL THEN UNCHANGED <<array, idx>>
     ELSE array' = swap(Mark(array, i), idx, i) /\ idx' = idx + 1
  /\ i' = IF array[i] = NULL THEN i ELSE i + 1
  /\ UNCHANGED <<text, count, phase, stack, pivot, j>>

\* One iteration: NULL, a smaller word and a duplicate, now NULL, go to the front.
Compare ==
  /\ stack # <<>> /\ Top.at = "partitioning" /\ i < Top.right
  /\ IF array[i] # NULL /\ text[array[i]] > text[pivot]
     THEN UNCHANGED <<array, idx>>
     ELSE array' = swap(Mark(array, i), idx, i) /\ idx' = idx + 1
  /\ i' = i + 1
  /\ UNCHANGED <<text, count, phase, stack, pivot, j>>

PlacePivot ==
  /\ stack # <<>> /\ Top.at = "partitioning" /\ i >= Top.right
  /\ array' = swap(array, idx, Top.right)
  /\ PartitionReturns(idx)
  /\ UNCHANGED <<text, count, phase, idx, i, pivot, j>>

\* A faulty second call that takes in the pivot.
SecondCall_pivot ==
  /\ stack # <<>> /\ Top.at = "left"
  /\ stack' = Append([stack EXCEPT ![Depth].at = "right"],
                     Call(Top.partition_index, Top.right))
  /\ UNCHANGED <<text, array, count, phase, idx, i, pivot, j>>

SecondCall ==
  /\ stack # <<>> /\ Top.at = "left"
  /\ stack' = Append([stack EXCEPT ![Depth].at = "right"],
                     Call(Top.partition_index + 1, Top.right))
  /\ UNCHANGED <<text, array, count, phase, idx, i, pivot, j>>

\* An activation ends; after the first one the loop that closes the gaps starts.
Return ==
  /\ stack # <<>>
  /\ \/ Top.at = "entered" /\ Top.left >= Top.right
     \/ Top.at = "right"
  /\ stack' = SubSeq(stack, 1, Depth - 1)
  /\ IF Depth = 1
     THEN phase' = "compacting" /\ i' = 0 /\ j' = 0
     ELSE UNCHANGED <<phase, i, j>>
  /\ UNCHANGED <<text, array, count, idx, pivot>>

Compact ==
  /\ phase = "compacting" /\ i < count
  /\ IF array[i] # NULL
     THEN array' = [array EXCEPT ![j] = array[i]] /\ j' = j + 1
     ELSE UNCHANGED <<array, j>>
  /\ i' = i + 1
  /\ UNCHANGED <<text, count, phase, stack, idx, pivot>>

CompactDone ==
  /\ phase = "compacting" /\ i >= count
  /\ count' = j
  /\ phase' = "returned"
  /\ UNCHANGED <<text, array, stack, idx, i, pivot, j>>

Returned == phase = "returned" /\ UNCHANGED vars

Next ==
  \/ SequentialSortUniqueWords
  \/ NullPivot \/ Partition \/ Compare \/ PlacePivot \/ SecondCall \/ Return
  \/ Compact \/ CompactDone
  \/ Returned

Spec == Init /\ [][Next]_vars

\* One thread runs the sort and nothing blocks it.
FairSpec == Spec /\ WF_vars(Next)

------------------------------------------------------------------------------
\* The positions that count: the last loop has done with those from j to i - 1.
Left == IF phase = "compacting" THEN (0 .. (j - 1)) \cup (i .. (count - 1)) ELSE 0 .. (count - 1)

\* partition and the last loop drop duplicates only: at every moment each word has an
\* occurrence that is not NULL and not passed over.
OneOfEachLeft ==
  \A w \in Positions : \E p \in Left : array[p] # NULL /\ text[array[p]] = text[w]

\* The positions an activation still has to order.
Pending(f) ==
  IF f.at \in {"entered", "partitioning"} THEN f.left .. f.right
  ELSE IF f.at = "left" THEN (f.partition_index + 1) .. f.right
  ELSE {}

\* Two occurrences of one word are never parted: while the sort runs both are in a
\* range that one activation has pending, so that they meet as pivot and duplicate.
EqualsTogether ==
  phase = "sorting" =>
    \A p, q \in Positions :
      (p < q /\ array[p] # NULL /\ array[q] # NULL /\ text[array[p]] = text[array[q]]) =>
        \E k \in 1 .. Depth : p \in Pending(stack[k]) /\ q \in Pending(stack[k])

\* The result has the words of the input, each once, in the order of strcmp, and
\* no NULL.
UniqueWhenReturned ==
  phase = "returned" =>
    /\ \A p \in 0 .. (count - 1) : array[p] # NULL
    /\ \A p \in 1 .. (count - 1) : text[array[p - 1]] < text[array[p]]
    /\ \A w \in Positions : \E p \in 0 .. (count - 1) : text[array[p]] = text[w]

\* What the comments in partition say of NULL: it is bigger than any word, hence
\* behind all of them when the sort has ended.
NullIsBigger ==
  (phase = "compacting" /\ i = 0) =>
    \A p, q \in Positions : (array[p] = NULL /\ array[q] # NULL) => q < p

\* The recursion of quicksort_recursive is no deeper than the array is long, with
\* NULL as a pivot too.
DepthBounded == Depth <= count

\* The sort ends on every array.
Termination == <>(phase = "returned")

------------------------------------------------------------------------------
(* The inductive invariant.  A frame is an activation of the recursion.     *)

Frame ==
  [left : 0 .. count, right : -1 .. (count - 1), at : {"entered", "partitioning", "left", "right"},
   partition_index : 0 .. count]

\* Every variable holds what the code keeps in it; count is the length of the array
\* until the call returns.
TypeOK ==
  /\ \E n \in Counts :
       Positions = 0 .. (n - 1) /\ count \in 0 .. n /\ (phase # "returned" => count = n)
  /\ text \in [Positions -> Word]
  /\ array \in [Positions -> Positions \cup {NULL}]
  /\ phase \in {"called", "sorting", "compacting", "returned"}
  /\ stack \in Seq(Frame)
  /\ idx \in Int /\ i \in Int /\ j \in Int
  /\ \A k \in 1 .. Depth : stack[k].left <= stack[k].right + 1

\* Only the last activation is outside its two recursive calls, and one that has made
\* a call was called for at least two positions and has its pivot placed.
CallersWait ==
  \A k \in 1 .. Depth :
    /\ k < Depth => stack[k].at \in {"left", "right"}
    /\ stack[k].at # "entered" => stack[k].left < stack[k].right
    /\ stack[k].at \in {"left", "right"} =>
         stack[k].left <= stack[k].partition_index /\ stack[k].partition_index <= stack[k].right

\* Position p is in the range of f; in the range of the call f is making.
InRange(p, f) == f.left <= p /\ p <= f.right
InCall(p, f) ==
  IF f.at = "left" THEN f.left <= p /\ p < f.partition_index
                   ELSE f.partition_index < p /\ p <= f.right

\* Every later activation works inside the call an earlier one is making, and each
\* call is for at least one position less than its caller's range.
Nested ==
  \A k \in 1 .. Depth :
    /\ stack[k].right - stack[k].left + 1 <= count - k + 1
    /\ \A m \in (k + 1) .. Depth : \A p \in Positions :
         InRange(p, stack[m]) => InCall(p, stack[k])

\* What the loop of partition has established about the positions it passed.
LoopInv ==
  (stack # <<>> /\ Top.at = "partitioning") =>
    /\ Top.left <= idx /\ idx <= i /\ i <= Top.right
    /\ Top.right \in Positions /\ array[Top.right] = pivot /\ pivot \in Positions
    /\ \A p \in Top.left .. (idx - 1) : array[p] = NULL \/ text[array[p]] < text[pivot]
    /\ \A p \in idx .. (i - 1) : array[p] # NULL /\ text[array[p]] > text[pivot]

\* Two words that are not in strict order, equal ones included, are in a range that
\* one activation has pending.  Of NULL nothing is said.
OrderedButPending ==
  (phase # "called" \/ count <= 1) =>
    \A p, q \in Left :
      (p < q /\ array[p] # NULL /\ array[q] # NULL) =>
        \/ text[array[p]] < text[array[q]]
        \/ \E k \in 1 .. Depth : p \in Pending(stack[k]) /\ q \in Pending(stack[k])

\* Where there can be no NULL.
GapsClosed ==
  /\ phase = "compacting" => 0 <= j /\ j <= i /\ i <= count
  /\ \A p \in Left :
       (phase \in {"called", "returned"} \/ (phase = "compacting" /\ p < j)) => array[p] # NULL

IInv ==
  /\ TypeOK
  /\ OneOfEachLeft
  /\ phase = "sorting" <=> stack # <<>>
  /\ phase = "sorting" => count > 1
  /\ CallersWait /\ Nested /\ LoopInv
  /\ OrderedButPending /\ GapsClosed
==============================================================================
