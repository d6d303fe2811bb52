---------------------------- MODULE ParPartition -----------------------------
(***************************************************************************)
(* par_sort_partition of src/sort_unique_words.c, with par_pivot_select:   *)
(* the three-way partition of words[left .. right - 1] that the sort       *)
(* quicksort_parallel recurses on.  The range is cut into p blocks; a      *)
(* first parallel loop counts the words of each block that are smaller     *)
(* than, equal to or larger than the pivot, prefix sums give every block   *)
(* its places in temp, and a second parallel loop fills them.              *)
(*                                                                         *)
(* The three counters nL, nE and nG are counted[id]["L"], ["E"] and ["G"], *)
(* and the places baseL + wL, baseE + wE, baseG + wG are place[id] alike.  *)
(* A step is one iteration of the inner loop of one block, or a stretch    *)
(* that one thread runs alone.                                             *)
(***************************************************************************)
EXTENDS ThreeWay

CONSTANTS
  Counts, Word,   \* as in Sorting
  MaxThreads      \* omp_get_max_threads()

ASSUME CountsAssumption  == Counts \subseteq Nat
ASSUME WordAssumption    == Word \subseteq Int
ASSUME ThreadsAssumption == MaxThreads \in Nat \ {0}

VARIABLES
  text, array, left, right,   \* the words and the range
  at,        \* "called", "counting", "scattering" or "returned"
  pivot,     \* a pointer
  i,         \* i[id]: the word block id looks at
  counted, place, temp,
  m1, m2     \* the results: where the words equal to the pivot begin and end

input == <<text, left, right>>
vars  == <<input, array, at, pivot, i, counted, place, temp, m1, m2>>

Unset == -1

n      == right - left
p      == IF MaxThreads > n THEN n ELSE MaxThreads
Blocks == 0 .. (p - 1)

\* A faulty block length, rounded down.
ws_floor == n \div p

ws == (n + p - 1) \div p

\* A faulty start that is right for a range at the start of the array only.
b_absolute(id) == id * ws

\* Block id is b(id) .. e(id) - 1; the last ones may be empty.
b(id) == left + id * ws

e(id) == IF left + (id + 1) * ws > right THEN right ELSE left + (id + 1) * ws

Class(w) == ClassOf(text, w, pivot)

\* The words of class c in the blocks before block id; in all blocks.
Before(id, c) ==
  LET sum[k \in 0 .. id] == IF k = 0 THEN 0 ELSE sum[k - 1] + counted[k - 1][c]
  IN  sum[id]
Total(c) == Before(p, c)

Base == [c \in Classes |-> CASE c = "L" -> 0
                             [] c = "E" -> Total("L")
                             [] c = "G" -> Total("L") + Total("E")]

FirstPlace(id, c) == Base[c] + Before(id, c)

\* Faulty barriers: one block is enough; a block that starts behind the range never ends.
LoopEnded_some    == \E id \in Blocks : i[id] >= e(id)
LoopEnded_exactly == \A id \in Blocks : i[id] = e(id)

\* The implicit barrier of a parallel loop.
LoopEnded == \A id \in Blocks : i[id] >= e(id)

------------------------------------------------------------------------------
\* Pointers are named by the positions they have at the call.
Init ==
  /\ \E count \in Counts :
       /\ text \in [0 .. (count - 1) -> Word]
       /\ array = [q \in 0 .. (count - 1) |-> q]
       /\ left \in 0 .. count /\ right \in left .. count
  /\ at = "called"
  /\ pivot = 0
  /\ i = <<>> /\ counted = <<>> /\ place = <<>> /\ temp = <<>>
  /\ m1 = 0 /\ m2 = 0

par_sort_partition ==
  /\ at = "called"
  /\ IF n <= 1
     THEN /\ m1' = left /\ m2' = right /\ at' = "returned"
          /\ UNCHANGED <<pivot, i, counted>>
     ELSE /\ pivot' = par_pivot_select(text, array, left, right)
          /\ i' = [id \in Blocks |-> b(id)]
          /\ counted' = [id \in Blocks |-> [c \in Classes |-> 0]]
          /\ at' = "counting"
          /\ UNCHANGED <<m1, m2>>
  /\ UNCHANGED <<input, array, place, temp>>

CountWord(id) ==
  /\ at = "counting" /\ i[id] < e(id)
  /\ counted' = [counted EXCEPT ![id][Class(array[i[id]])] = @ + 1]
  /\ i' = [i EXCEPT ![id] = @ + 1]
  /\ UNCHANGED <<input, array, at, pivot, place, temp, m1, m2>>

\* The first loop has ended in every block.
PrefixSums ==
  /\ at = "counting" /\ LoopEnded
  /\ place' = [id \in Blocks |-> [c \in Classes |-> FirstPlace(id, c)]]
  /\ temp' = [k \in 0 .. (n - 1) |-> Unset]
  /\ i' = [id \in Blocks |-> b(id)]
  /\ at' = "scattering"
  /\ UNCHANGED <<input, array, pivot, counted, m1, m2>>

Scatter(id) ==
  /\ at = "scattering" /\ i[id] < e(id)
  /\ LET w == array[i[id]] IN
       /\ temp' = [temp EXCEPT ![place[id][Class(w)]] = w]
       /\ place' = [place EXCEPT ![id][Class(w)] = @ + 1]
  /\ i' = [i EXCEPT ![id] = @ + 1]
  /\ UNCHANGED <<input, array, at, pivot, counted, m1, m2>>

\* The second loop has ended in every block: temp is copied back.
CopyBack ==
  /\ at = "scattering" /\ LoopEnded
  /\ array' = [q \in DOMAIN array |->
                 IF left <= q /\ q < right THEN temp[q - left] ELSE array[q]]
  /\ m1' = left + Total("L")
  /\ m2' = left + Total("L") + Total("E")
  /\ at' = "returned"
  /\ UNCHANGED <<input, pivot, i, counted, place, temp>>

Returned == at = "returned" /\ UNCHANGED vars

Step(id) == CountWord(id) \/ Scatter(id)

Next ==
  \/ par_sort_partition
  \/ \E id \in Blocks : Step(id)
  \/ PrefixSums
  \/ CopyBack
  \/ Returned

Spec == Init /\ [][Next]_vars

\* Every thread of the team runs the blocks it was given to their end.
FairSpec ==
  Spec /\ WF_vars(par_sort_partition) /\ WF_vars(PrefixSums) /\ WF_vars(CopyBack)
       /\ \A id \in 0 .. (MaxThreads - 1) : WF_vars(id \in Blocks /\ Step(id))

------------------------------------------------------------------------------
\* The places of temp that block id has still to fill with words of class c.
Owed(id, c) ==
  place[id][c] ..
    (place[id][c] + Cardinality({q \in i[id] .. (e(id) - 1) : Class(array[q]) = c}) - 1)

Claims == Blocks \X Classes

\* Indices stay in the range they index, blocks inside the range partitioned.
TypeOK ==
  /\ array \in [DOMAIN text -> DOMAIN text]
  /\ at \in {"called", "counting", "scattering", "returned"}
  /\ at \in {"counting", "scattering"} =>
       /\ pivot \in DOMAIN text
       /\ \A id \in Blocks : left <= i[id] /\ (i[id] <= right \/ i[id] = b(id))
  /\ at \in {"called", "counting"} => temp = <<>>
  /\ at = "scattering" => DOMAIN temp = 0 .. (n - 1)
  /\ {m1, m2} \subseteq 0 .. right

\* No two blocks ever have the same place of temp to fill, and together they fill
\* what is left of it: no write is lost and none falls outside.
PlacesPartitionTemp ==
  at = "scattering" =>
    /\ \A x, y \in Claims : x # y => Owed(x[1], x[2]) \cap Owed(y[1], y[2]) = {}
    /\ UNION {Owed(x[1], x[2]) : x \in Claims} = {k \in 0 .. (n - 1) : temp[k] = Unset}

\* Whatever the interleaving and the number of blocks, the outcome is the range
\* split into the smaller, the equal and the larger words, each in the order they
\* had, and m1 and m2 tell the three apart.
ThreeWaySplit ==
  (at = "returned" /\ n > 1) =>
    LET before == [q \in DOMAIN text |-> q]
    IN  [array |-> array, m1 |-> m1, m2 |-> m2] =
          Split(text, before, left, right, par_pivot_select(text, before, left, right))

\* Every call returns.
Termination == <>(at = "returned")

------------------------------------------------------------------------------
(* The inductive invariant.                                                 *)

\* The positions among l .. r - 1 with a word of class c.
Of(c, l, r) == {q \in l .. (r - 1) : Class(array[q]) = c}

\* The words of the range that are of a smaller class.
Below(c) ==
  LET N(d) == Cardinality(Of(d, left, right))
  IN  IF c = "L" THEN 0 ELSE IF c = "E" THEN N("L") ELSE N("L") + N("E")

\* The place of temp for the word at position q: behind the smaller classes and the
\* words of its class before it.
Dest(q) ==
  LET c == Class(array[q]) IN Below(c) + Cardinality(Of(c, left, q))

Parallel == at \in {"counting", "scattering"}

\* A range of words, more than one of them once the blocks are cut.
RangeOK ==
  /\ left \in Nat /\ right \in Nat /\ left <= right
  /\ left .. (right - 1) \subseteq DOMAIN text /\ DOMAIN text \subseteq Int
  /\ text \in [DOMAIN text -> Word]
  /\ Parallel => n > 1

\* Nothing changes the array before temp is copied back.
Original ==
  /\ at # "returned" => array = [q \in DOMAIN text |-> q]
  /\ Parallel => pivot = par_pivot_select(text, array, left, right)

LoopOK ==
  Parallel =>
    /\ i \in [Blocks -> Int]
    /\ \A id \in Blocks : b(id) <= i[id] /\ (i[id] <= e(id) \/ i[id] = b(id))
    /\ counted \in [Blocks -> [Classes -> Nat]]
    /\ at = "scattering" => place \in [Blocks -> [Classes -> Int]]

\* The counters of a block count what its loop has seen.
Counted ==
  Parallel =>
    \A id \in Blocks, c \in Classes :
      counted[id][c] = Cardinality(Of(c, b(id), IF at = "counting" THEN i[id] ELSE e(id)))

\* A block has advanced its places by what it has put there.
Placed ==
  at = "scattering" =>
    \A id \in Blocks, c \in Classes :
      b(id) <= right => place[id][c] = Below(c) + Cardinality(Of(c, left, i[id]))

\* The words the blocks have passed are where they belong, the other places are unset.
Filled ==
  at = "scattering" =>
    \A id \in Blocks : \A q \in b(id) .. (e(id) - 1) :
      temp[Dest(q)] = IF q < i[id] THEN array[q] ELSE Unset

IInv ==
  /\ TypeOK
  /\ RangeOK /\ Original /\ LoopOK
  /\ Counted /\ Placed /\ Filled
  /\ ThreeWaySplit
==============================================================================
