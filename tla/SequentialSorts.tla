-------------------------- MODULE SequentialSorts ---------------------------
(***************************************************************************)
(* The two sequential sorts WordList can be compiled with, on the same     *)
(* words: quick_sort_words, and after it insertion_sort on the words as    *)
(* they were at the call.                                                  *)
(***************************************************************************)
EXTENDS QuickSort

VARIABLES ins_array, ins_at, ins_i, ins_j, ins_key

ins_vars == <<ins_array, ins_at, ins_i, ins_j, ins_key>>

Ins == INSTANCE InsertionSort WITH
         array <- ins_array, at <- ins_at, i <- ins_i, j <- ins_j, key <- ins_key

SortsInit == Init /\ Ins!Init

SortsNext ==
  \/ Next /\ UNCHANGED ins_vars
  \/ phase = "returned" /\ Ins!Next /\ UNCHANGED vars

SortsSpec == SortsInit /\ [][SortsNext]_<<vars, ins_vars>> /\ WF_<<vars, ins_vars>>(SortsNext)

\* insertion_sort keeps the promise WordList relies on, although no state in its
\* inner loop is a rearrangement of the words.
InsertionContract == Ins!Contract
==============================================================================
