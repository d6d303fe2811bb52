------------------------------ MODULE ThreeWay -------------------------------
(***************************************************************************)
(* What par_pivot_select and par_sort_partition of src/sort_unique_words.c *)
(* compute, as operators on an array of pointers and the words behind them.*)
(***************************************************************************)
EXTENDS Integers, FiniteSets

Classes == {"L", "E", "G"}

\* A faulty comparison that takes words equal to the pivot for smaller ones.
ClassOf_two_way(text, w, pivot) == IF text[w] <= text[pivot] THEN "L" ELSE "G"

\* How word w compares with the pivot.
ClassOf(text, w, pivot) ==
  IF text[w] < text[pivot] THEN "L" ELSE IF text[w] = text[pivot] THEN "E" ELSE "G"

\* The median of the first, the middle and the last word of left .. right - 1.
par_pivot_select(text, array, left, right) ==
  LET l == array[left]
      m == array[left + ((right - left) \div 2)]
      r == array[right - 1]
      Between(x, y, z) == text[x] <= text[y] /\ text[y] <= text[z]
  IN  IF Between(l, m, r) \/ Between(r, m, l) THEN m
      ELSE IF Between(m, r, l) \/ Between(l, r, m) THEN r
      ELSE l

\* The sequential partition: the smaller, the equal and the larger words of the
\* range, each in the order they had, and where the equal ones begin and end.
Split(text, array, left, right, pivot) ==
  LET range    == left .. (right - 1)
      class(q) == ClassOf(text, array[q], pivot)
      Precedes(r, q) ==
        IF class(r) = class(q) THEN r < q ELSE class(r) = "L" \/ class(q) = "G"
      place(q) == left + Cardinality({r \in range : Precedes(r, q)})
  IN  [array |-> [p \in DOMAIN array |->
                    IF p \in range THEN array[CHOOSE q \in range : place(q) = p] ELSE array[p]],
       m1 |-> left + Cardinality({q \in range : class(q) = "L"}),
       m2 |-> left + Cardinality({q \in range : class(q) # "G"})]
==============================================================================
