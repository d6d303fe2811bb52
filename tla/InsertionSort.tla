---------------------------- MODULE InsertionSort ----------------------------
(***************************************************************************)
(* insertion_sort of src/sort_unique_words.c, the first of the sorts       *)
(* WordList can be compiled with.  While a word is being inserted its      *)
(* pointer is in key only, and the place it left moves to the front.       *)
(***************************************************************************)
EXTENDS SortInput

VARIABLES
  at,   \* "outer", "inner" (the two loops) or "returned"
  i, j, key

vars  == <<input, array, at, i, j, key>>

\* A faulty condition that stops before the first word.
Moves_to_one == j > 1 /\ text[array[j - 1]] > text[key]

\* The condition of the inner loop.
Moves == j > 0 /\ text[array[j - 1]] > text[key]

------------------------------------------------------------------------------
Init ==
  /\ InputInit
  /\ at = "outer"
  /\ i = 1 /\ j = 0 /\ key = 0

Take ==
  /\ at = "outer" /\ i < count
  /\ key' = array[i] /\ j' = i
  /\ at' = "inner"
  /\ UNCHANGED <<input, array, i>>

Move ==
  /\ at = "inner" /\ Moves
  /\ array' = [array EXCEPT ![j] = array[j - 1]]
  /\ j' = j - 1
  /\ UNCHANGED <<input, at, i, key>>

Insert ==
  /\ at = "inner" /\ ~Moves
  /\ array' = [array EXCEPT ![j] = key]
  /\ i' = i + 1
  /\ at' = "outer"
  /\ UNCHANGED <<input, j, key>>

Return ==
  /\ at = "outer" /\ i >= count
  /\ at' = "returned"
  /\ UNCHANGED <<input, array, i, j, key>>

Returned == at = "returned" /\ UNCHANGED vars

Next == Take \/ Move \/ Insert \/ Return \/ Returned

Spec == Init /\ [][Next]_vars

------------------------------------------------------------------------------
\* The array with the word that is being inserted in its gap.
Filled == IF at = "inner" THEN [array EXCEPT ![j] = key] ELSE array

\* Every variable holds what the code keeps in it.
TypeOK ==
  /\ count \in Counts
  /\ text \in [Positions -> Word]
  /\ array \in [Positions -> Positions]
  /\ at \in {"outer", "inner", "returned"}
  /\ i \in Nat /\ j \in Nat /\ key \in Nat
  /\ at = "inner" => i \in Positions /\ j \in 0 .. i /\ key \in Positions

\* While words move, the array holds one pointer twice and another not at all; with
\* key in the gap no pointer is missing.
NoWordLost == \A w \in Positions : \E p \in Positions : Filled[p] = w

\* The words up to the gap and behind it are in order, and what has moved behind it
\* is larger than key: the loop stops where key belongs.
PrefixSorted ==
  /\ \A p, q \in Positions :
       (p < q /\ (q < i \/ (at = "inner" /\ q = i /\ j < i))) => text[array[p]] <= text[array[q]]
  /\ at = "inner" =>
       \A p \in Positions : (j < p /\ p <= i) => text[array[p]] > text[key]

\* insertion_sort keeps the promise WordList relies on, although no state in the
\* inner loop is a rearrangement of the words.
S == INSTANCE Sorting WITH array <- Filled, done <- (at = "returned")
Contract == S!Spec
==============================================================================
