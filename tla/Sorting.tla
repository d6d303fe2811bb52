------------------------------- MODULE Sorting -------------------------------
(***************************************************************************)
(* What WordList expects of the sort it calls on word_array, whichever of  *)
(* the four sorts of sort_unique_words.c is compiled in: the pointers are  *)
(* rearranged and nothing else, and when the sort returns they are in the  *)
(* order of the words they point to.                                       *)
(*                                                                         *)
(* A pointer is named by the number of the word it was created for, so     *)
(* that two occurrences of one word are different pointers.  The text      *)
(* behind a pointer is a member of Word, a set of integers ordered the way *)
(* strcmp orders the strings they stand for.                               *)
(***************************************************************************)
EXTENDS Integers

CONSTANTS
  Counts,  \* the lengths the array may have, a set of naturals
  Word     \* the words that may occur in the document, a set of integers

VARIABLES
  count,   \* number of words
  text,    \* text[p]: the word behind pointer p
  array,   \* word_array
  done     \* the sort has returned

Positions == 0 .. (count - 1)

\* Every pointer is in the array, hence (there are count places) exactly once.
NoWordLost == \A w \in Positions : \E p \in Positions : array[p] = w

\* The words are in the order of strcmp.
Sorted == \A p, q \in Positions : p < q => text[array[p]] <= text[array[q]]

Init ==
  /\ count \in Counts
  /\ text \in [Positions -> Word]
  /\ array = [p \in Positions |-> p]
  /\ done = FALSE

Rearrange ==
  /\ ~done
  /\ array' \in [Positions -> Positions]
  /\ NoWordLost'
  /\ UNCHANGED <<count, text, done>>

Return ==
  /\ ~done
  /\ Sorted
  /\ done' = TRUE
  /\ UNCHANGED <<count, text, array>>

Next == Rearrange \/ Return

Spec == Init /\ [][Next]_<<count, text, array, done>>
==============================================================================
