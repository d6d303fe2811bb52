---------------------------- MODULE MCParQuickSort ---------------------------
(* ParQuickSort on arrays of up to six words shared by two threads; ranges of more
   than two words are partitioned, so that three levels of tasks occur. *)
EXTENDS ParQuickSort

MCCounts    == {0, 1, 3, 4, 6}
MCWord      == 1 .. 3
MCThreads   == {"t1", "t2"}
MCThreshold == 2
==============================================================================
