---------------------------- MODULE MCBaselineSort ---------------------------
(* BaselineSort on every array of up to five words with up to three different
   texts, so that a text occurs once, twice or more often. *)
EXTENDS BaselineSort

MCCounts == 0 .. 5
MCWord   == 1 .. 3
==============================================================================
