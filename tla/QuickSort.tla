------------------------------ MODULE QuickSort ------------------------------
(***************************************************************************)
(* The sort WordList calls: quick_sort_words, with quick_sort_recursive    *)
(* and partition_words of src/sort_unique_words.c.                         *)
(*                                                                         *)
(* The C call stack of quick_sort_recursive is the sequence "stack", the   *)
(* running activation last.  The locals of partition_words, of which one   *)
(* activation exists at a time, are idx, i and pivot.  One step is one     *)
(* call, one return or one iteration of the loop.                          *)
(***************************************************************************)
EXTENDS SortInput, Sequences

VARIABLES
  phase,   \* of quick_sort_words: "called", "sorting" or "returned"
  stack,   \* activations of quick_sort_recursive
  idx,     \* partition_words: where the next smaller word goes
  i,       \* partition_words: the word looked at
  pivot    \* partition_words: the pivot pointer

vars == <<count, text, array, phase, stack, idx, i, pivot>>

\* The point an activation has reached: entered, inside partition_words, in
\* its first recursive call, or in its second.
Points == {"entered", "partitioning", "left", "right"}

\* Two faulty calls, for the mutation checks: one that takes r for the end of the
\* range, one that ignores l.
CallShort(l, r) ==
  [left |-> l, right |-> r - 1, at |-> "entered", partition_index |-> l]
CallFromZero(l, r) ==
  [left |-> 0, right |-> r, at |-> "entered", partition_index |-> l]

Call(l, r) ==
  [left |-> l, right |-> r, at |-> "entered", partition_index |-> l]

Depth == Len(stack)
Top   == stack[Depth]

strcmp(p, q) == text[p] - text[q]

------------------------------------------------------------------------------
Init ==
  /\ InputInit
  /\ phase = "called"
  /\ stack = <<>>
  /\ idx = 0 /\ i = 0 /\ pivot = 0

quick_sort_words ==
  /\ phase = "called"
  /\ IF count <= 1
     THEN phase' = "returned" /\ UNCHANGED stack
     ELSE phase' = "sorting" /\ stack' = <<Call(0, count - 1)>>
  /\ UNCHANGED <<count, text, array, idx, i, pivot>>

\* A faulty partition_words that starts at the first word of the array.
PartitionFromZero ==
  /\ stack # <<>> /\ Top.at = "entered" /\ Top.left < Top.right
  /\ stack' = [stack EXCEPT ![Depth].at = "partitioning"]
  /\ idx' = 0
  /\ i' = 0
  /\ pivot' = array[Top.right]
  /\ UNCHANGED <<count, text, array, phase>>

\* left < right: partition_words starts its loop.
Partition ==
  /\ stack # <<>> /\ Top.at = "entered" /\ Top.left < Top.right
  /\ stack' = [stack EXCEPT ![Depth].at = "partitioning"]
  /\ idx' = Top.left
  /\ i' = Top.left
  /\ pivot' = array[Top.right]
  /\ UNCHANGED <<count, text, array, phase>>

\* A faulty loop that increments i for smaller words only.
CompareStuck ==
  /\ stack # <<>> /\ Top.at = "partitioning" /\ i < Top.right
  /\ IF strcmp(array[i], pivot) < 0
     THEN array' = swap_words(array, idx, i) /\ idx' = idx + 1 /\ i' = i + 1
     ELSE UNCHANGED <<array, idx, i>>
  /\ UNCHANGED <<count, text, phase, stack, pivot>>

\* One iteration of the loop of partition_words.
Compare ==
  /\ stack # <<>> /\ Top.at = "partitioning" /\ i < Top.right
  /\ IF strcmp(array[i], pivot) < 0
     THEN array' = swap_words(array, idx, i) /\ idx' = idx + 1
     ELSE UNCHANGED <<array, idx>>
  /\ i' = i + 1
  /\ UNCHANGED <<count, text, phase, stack, pivot>>

\* The loop ends: the pivot moves between the two parts, partition_words
\* returns its place and the first recursive call starts.
PlacePivot ==
  /\ stack # <<>> /\ Top.at = "partitioning" /\ i >= Top.right
  /\ array' = swap_words(array, idx, Top.right)
  /\ stack' = Append([stack EXCEPT ![Depth].at = "left",
                                   ![Depth].partition_index = idx],
                     Call(Top.left, idx - 1))
  /\ UNCHANGED <<count, text, phase, idx, i, pivot>>

\* The first recursive call has returned.
SecondCall ==
  /\ stack # <<>> /\ Top.at = "left"
  /\ stack' = Append([stack EXCEPT ![Depth].at = "right"],
                     Call(Top.partition_index + 1, Top.right))
  /\ UNCHANGED <<count, text, array, phase, idx, i, pivot>>

\* An activation ends: its range has at most one word, or its second
\* recursive call has returned.
Return ==
  /\ stack # <<>>
  /\ \/ Top.at = "entered" /\ Top.left >= Top.right
     \/ Top.at = "right"
  /\ stack' = SubSeq(stack, 1, Depth - 1)
  /\ phase' = IF Depth = 1 THEN "returned" ELSE phase
  /\ UNCHANGED <<count, text, array, idx, i, pivot>>

\* WordList goes on; nothing of the sort is left to run.
Returned == phase = "returned" /\ UNCHANGED vars

Next ==
  \/ quick_sort_words
  \/ Partition
  \/ Compare
  \/ PlacePivot
  \/ SecondCall
  \/ Return
  \/ Returned

Spec == Init /\ [][Next]_vars

\* One thread runs the sort and nothing blocks it.
FairSpec == Spec /\ WF_vars(Next)

------------------------------------------------------------------------------
Frame ==
  [left : 0 .. count, right : -1 .. (count - 1), at : Points,
   partition_index : 0 .. count]

\* Every variable holds what the code keeps in it, and the bounds of an
\* activation are those of a range of the array, possibly empty.
TypeOK ==
  /\ count \in Counts
  /\ text \in [Positions -> Word]
  /\ array \in [Positions -> Positions]
  /\ phase \in {"called", "sorting", "returned"}
  /\ stack \in Seq(Frame)
  /\ idx \in 0 .. count /\ i \in 0 .. count /\ pivot \in 0 .. count
  /\ \A k \in 1 .. Depth : stack[k].left <= stack[k].right + 1

\* No pointer is dropped or doubled by the exchanges (swap_words), however
\* far the sort has come: the set of words never changes.
NoWordLost == \A w \in Positions : \E p \in Positions : array[p] = w

\* quick_sort_words returns with the array in the order of strcmp, which the
\* loop that removes duplicates relies on.
SortedWhenReturned ==
  phase = "returned" =>
    \A p, q \in Positions : p < q => text[array[p]] <= text[array[q]]

\* partition_words reads words[i], words[idx] and words[right] only inside
\* the range it was called for, idx never overtaking i, and the pivot it
\* compares with stays at the end of the range until the loop is over.
PartitionInRange ==
  (stack # <<>> /\ Top.at = "partitioning") =>
    /\ Top.left <= idx /\ idx <= i /\ i <= Top.right
    /\ Top.right \in Positions
    /\ array[Top.right] = pivot

\* The recursion never holds more activations than the array has words; a
\* document of equal words, or one already in order, gets that deep.
DepthBounded == Depth <= count

\* The positions an activation still has to order, itself or by a call that
\* it has yet to make.
Pending(f) ==
  IF f.at \in {"entered", "partitioning"} THEN f.left .. f.right
  ELSE IF f.at = "left" THEN (f.partition_index + 1) .. f.right
  ELSE {}

\* A pivot, once placed, and a range, once sorted, are never touched again:
\* a step moves only pointers at positions that some activation has pending.
PlacedForGood ==
  [][\A p \in Positions :
       (phase = "sorting" /\ \A k \in 1 .. Depth : p \notin Pending(stack[k]))
         => array'[p] = array[p]]_vars

\* The sort ends on every array.
Termination == <>(phase = "returned")

\* The sort keeps the promise WordList relies on.
S == INSTANCE Sorting WITH done <- (phase = "returned")
Contract == S!Spec
------------------------------------------------------------------------------
(* The inductive invariant.  A frame is an activation of the recursion.     *)

\* Only the last activation is outside its two recursive calls, and one that
\* has made a call was called for at least two words and has its pivot placed.
CallersWait ==
  \A k \in 1 .. Depth :
    /\ k < Depth => stack[k].at \in {"left", "right"}
    /\ stack[k].at # "entered" => stack[k].left < stack[k].right
    /\ stack[k].at \in {"left", "right"} =>
         stack[k].left <= stack[k].partition_index /\ stack[k].partition_index <= stack[k].right

\* Position p is in the range of f; in the range of the call f is making.
InRange(p, f) == f.left <= p /\ p <= f.right
InCall(p, f) ==
  IF f.at = "left" THEN f.left <= p /\ p < f.partition_index
                   ELSE f.partition_index < p /\ p <= f.right

\* Every later activation works inside the call an earlier one is making,
\* and each call is for at least one word less than its caller's range.
Nested ==
  \A k \in 1 .. Depth :
    /\ stack[k].right - stack[k].left + 1 <= count - k + 1
    /\ \A m \in (k + 1) .. Depth : \A p \in Positions :
         InRange(p, stack[m]) => InCall(p, stack[k])

\* Two pointers out of order are in a range that one activation has pending.
OrderedButPending ==
  (phase # "called" \/ count <= 1) =>
    \A p, q \in Positions :
      p < q => \/ text[array[p]] <= text[array[q]]
               \/ \E k \in 1 .. Depth : p \in Pending(stack[k]) /\ q \in Pending(stack[k])

\* What the loop of partition_words has established about the words it passed.
LoopInv ==
  (stack # <<>> /\ Top.at = "partitioning") =>
    /\ \A p \in Top.left .. (idx - 1) : text[array[p]] < text[pivot]
    /\ \A p \in idx .. (i - 1) : text[array[p]] >= text[pivot]

SortInv ==
  /\ phase = "sorting" <=> stack # <<>>
  /\ phase = "sorting" => count > 1
  /\ CallersWait
  /\ Nested
  /\ OrderedButPending
  /\ LoopInv

IInv == TypeOK /\ NoWordLost /\ PartitionInRange /\ SortInv
==============================================================================
