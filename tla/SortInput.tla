------------------------------ MODULE SortInput ------------------------------
(***************************************************************************)
(* What the sorts of src/sort_unique_words.c are called with: an array of  *)
(* pointers to words.  A pointer is named by the position it has at the    *)
(* call, so that two occurrences of one word are different pointers; the   *)
(* word behind it is an integer, ordered as strcmp orders the strings.     *)
(***************************************************************************)
EXTENDS Integers

CONSTANTS
  Counts,  \* the lengths the array may have
  Word     \* the words that may occur

ASSUME CountsAssumption == Counts \subseteq Nat
ASSUME WordAssumption   == Word \subseteq Int

VARIABLES
  count,   \* the length of the array
  text,    \* text[p]: the word behind pointer p
  array    \* the pointers

input == <<count, text>>

Positions == 0 .. (count - 1)

InputInit ==
  /\ count \in Counts
  /\ text \in [Positions -> Word]
  /\ array = [p \in Positions |-> p]

swap_words(a, p, q) == [a EXCEPT ![p] = a[q], ![q] = a[p]]
==============================================================================
