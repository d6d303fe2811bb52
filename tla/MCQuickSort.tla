----------------------------- MODULE MCQuickSort -----------------------------
(* Both sequential sorts on every array of up to five words with up to three
   different texts. *)
EXTENDS SequentialSorts

MCCounts == 0 .. 5
MCWord   == 1 .. 3
==============================================================================
