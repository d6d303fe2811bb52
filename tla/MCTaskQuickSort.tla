--------------------------- MODULE MCTaskQuickSort ---------------------------
(* TaskQuickSort on arrays of up to five words, one of them empty, one with a
   single word, shared by two threads.  With the threshold at 2 a range of three
   words is split and one of two is not, and three levels of tasks occur. *)
EXTENDS TaskQuickSort

MCCounts    == {0, 1, 3, 5}
MCWord      == 1 .. 3
MCThreads   == {"t1", "t2"}
MCThreshold == 2
==============================================================================
