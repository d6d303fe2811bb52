---------------------------- MODULE MCParPartition ---------------------------
(* ParPartition on every range of every array of up to five words, in at most
   four blocks; five words make blocks of two, the last of them empty. *)
EXTENDS ParPartition

MCCounts     == {1, 3, 5}
MCWord       == 1 .. 3
MCMaxThreads == 4
==============================================================================
