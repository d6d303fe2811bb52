---------------------------- MODULE TaskQuickSort ----------------------------
(***************************************************************************)
(* quick_sort_words_parallel of src/sort_unique_words.c: the quicksort     *)
(* that partitions one range at a time (seq_pivot_select) and hands the    *)
(* two parts to OpenMP tasks.  WordList has it as an alternative to        *)
(* quick_sort_words.  A frame of OmpTasks is an activation of              *)
(* quick_sort_parallel, with the locals of seq_pivot_select.               *)
(***************************************************************************)
EXTENDS OmpTasks

CONSTANT threshold   \* the code's 5000

ASSUME ThresholdAssumption == threshold \in Nat \ {0}

vars  == <<input, array, team>>

Points    == SchedulingPoints \cup {"looping"}

Task(l, r, at) == [left |-> l, right |-> r, at |-> at, i |-> l, idx |-> l]

\* The median of the first, the middle and the last word of a range goes to the
\* place before the last, the smallest and the largest to the two ends.
MedianOfThree(a, left, right) ==
  LET mid == left + ((right - left) \div 2)
      InOrder(b, p, q) == IF text[b[p]] > text[b[q]] THEN swap_words(b, p, q) ELSE b
      a1 == InOrder(a, left, mid)
      a2 == InOrder(a1, left, right)
      a3 == InOrder(a2, mid, right)
  IN  swap_words(a3, mid, right - 1)

\* A faulty loop that runs to right, where partition_words keeps its pivot.
LoopEnd_right(f) == f.right

\* Where the loop of seq_pivot_select finds the pivot and ends.
LoopEnd(f) == f.right - 1

\* The parts of a partitioned range; faulty ones that run up to right, skip a word.
FirstPart_whole(f)  == Task(f.left, f.right, "deferred")
SecondPart_short(f) == Task(f.idx + 2, f.right, "deferred")

FirstPart(f)  == Task(f.left, f.idx - 1, "deferred")
SecondPart(f) == Task(f.idx + 1, f.right, "deferred")

------------------------------------------------------------------------------
Init ==
  /\ InputInit
  /\ TeamInit

quick_sort_words_parallel ==
  /\ phase = "called"
  /\ IF count <= 1
     THEN phase' = "returned" /\ UNCHANGED <<task, stack>>
     ELSE EnterRegion(Task(0, count - 1, "working"))
  /\ UNCHANGED <<input, array>>

\* A range of at most one word is left alone, a range below the threshold is
\* sorted by quick_sort_recursive.
Sequential(t) ==
  /\ Runs(t, "working")
  /\ LET f == task[Running(t)] IN
       /\ f.right - f.left < threshold
       /\ IF f.left < f.right
          THEN array' \in QuickSorted(array, f.left, f.right)
          ELSE UNCHANGED array
  /\ EndTask(t)
  /\ UNCHANGED input

\* A larger range: seq_pivot_select puts the median of three in its place.
PivotSelect(t) ==
  /\ Runs(t, "working")
  /\ LET f == task[Running(t)] IN
       /\ f.left < f.right /\ f.right - f.left >= threshold
       /\ array' = MedianOfThree(array, f.left, f.right)
       /\ GoOn(t, [f EXCEPT !.at = "looping", !.i = f.left, !.idx = f.left])
  /\ UNCHANGED input

\* An iteration of its loop.
Compare(t) ==
  /\ Runs(t, "looping")
  /\ LET f == task[Running(t)] IN
       /\ f.i < LoopEnd(f)
       /\ IF text[array[f.i]] < text[array[f.right - 1]]
          THEN /\ array' = swap_words(array, f.idx, f.i)
               /\ GoOn(t, [f EXCEPT !.i = @ + 1, !.idx = @ + 1])
          ELSE GoOn(t, [f EXCEPT !.i = @ + 1]) /\ UNCHANGED array
  /\ UNCHANGED input

\* The pivot moves to idx, the partition index, and a task is created for the
\* first part.
SpawnFirst(t) ==
  /\ Runs(t, "looping")
  /\ LET f == task[Running(t)] IN
       /\ f.i >= LoopEnd(f)
       /\ array' = swap_words(array, f.idx, f.right - 1)
       /\ CreateFirst(t, FirstPart(f), [f EXCEPT !.at = "spawning"])
  /\ UNCHANGED input

\* A task is created for the second part.
SpawnSecond(t) ==
  /\ Runs(t, "spawning")
  /\ LET f == task[Running(t)] IN CreateSecond(t, SecondPart(f), [f EXCEPT !.at = "waiting"])
  /\ UNCHANGED <<input, array>>

\* What the runtime does leaves the array alone.
Runtime(t) == (TaskWait(t) \/ Begin(t)) /\ UNCHANGED <<input, array>>
Leave      == LeaveRegion /\ UNCHANGED <<input, array>>
Returned   == phase = "returned" /\ UNCHANGED vars

Step(t) ==
  Sequential(t) \/ PivotSelect(t) \/ Compare(t) \/ SpawnFirst(t) \/ SpawnSecond(t) \/ Runtime(t)

Next == quick_sort_words_parallel \/ (\E t \in Threads : Step(t)) \/ Leave \/ Returned

Spec == Init /\ [][Next]_vars

\* Every thread keeps running; one that waits looks for tasks.
FairSpec ==
  Spec /\ WF_vars(quick_sort_words_parallel) /\ WF_vars(Leave)
       /\ \A t \in Threads : WF_vars(Step(t))

------------------------------------------------------------------------------
Frame == [left : Int, right : Int, at : Points, i : Int, idx : Int]

\* Every task has the bounds of a range of the array, possibly empty, and a task
\* that has partitioned its range has its pivot inside it, never at its end.
TypeOK ==
  /\ count \in Counts
  /\ text \in [Positions -> Word]
  /\ array \in [Positions -> Positions]
  /\ \A k \in Created :
       /\ task[k] \in Frame
       /\ 0 <= task[k].left /\ task[k].left <= task[k].right + 1 /\ task[k].right < count
       /\ task[k].left <= task[k].idx /\ task[k].idx <= task[k].i
       /\ task[k].at \in {"looping", "spawning", "waiting"} => task[k].i < task[k].right

\* No two tasks that may be at work at the same moment have a position in common,
\* so that the sort needs no lock around words (seq_pivot_select, swap_words).
NoDataRace ==
  \A j, k \in Created :
    (j # k /\ task[j].at \in {"working", "looping"} /\ task[k].at \in {"working", "looping"}) =>
      task[j].right < task[k].left \/ task[k].right < task[j].left

\* While a task waits for its parts, no word left of its pivot is larger than the
\* pivot and none right of it is smaller, whatever the threads do to the parts.
PartsSplit ==
  \A k \in Created :
    task[k].at \in {"spawning", "waiting"} =>
      LET pivot == text[array[task[k].idx]]
      IN  /\ \A p \in task[k].left .. (task[k].idx - 1) : text[array[p]] <= pivot
          /\ \A p \in (task[k].idx + 1) .. task[k].right : pivot <= text[array[p]]

\* However the team shares the tasks, the sort ends: no thread waits for a task
\* that nobody will begin.
Termination == <>(phase = "returned")

\* The sort keeps the promise WordList relies on: it returns, whenever it does, with
\* the array in the order of strcmp.
S == INSTANCE Sorting WITH done <- (phase = "returned")
Contract == S!Spec

------------------------------------------------------------------------------
(* The inductive invariant.                                                 *)

\* What a task has still to order itself or to hand to a task it has not created
\* yet: the positions from First to its right end.
Unfinished(f) == f.at \in {"deferred", "working", "looping", "spawning"}
First(f)      == IF f.at = "spawning" THEN f.idx + 1 ELSE f.left
Pending(f)    == IF Unfinished(f) THEN First(f) .. f.right ELSE {}

\* No two tasks have to order the same position.
PendingApart ==
  \A j, k \in Created :
    (j # k /\ Unfinished(task[j]) /\ Unfinished(task[k])) =>
      task[j].right < First(task[k]) \/ task[k].right < First(task[j])

\* Nobody has to order the place of a pivot.
PivotsPlaced ==
  \A j, k \in Created : task[k].at \in {"spawning", "waiting"} => task[k].idx \notin Pending(task[j])

\* What the loop of seq_pivot_select knows of the words of a it has passed.
Passed(a, f) ==
  LET pivot == text[a[f.right - 1]]
  IN  /\ \A p \in f.left .. (f.idx - 1) : text[a[p]] < pivot
      /\ \A p \in f.idx .. (f.i - 1) : pivot <= text[a[p]]
      /\ pivot <= text[a[f.right]]

LoopInv == \A k \in Created : task[k].at = "looping" => Passed(array, task[k])

\* Two words out of order are both still to be ordered by one task.
OrderedButPending ==
  \A p, q \in Positions :
    p < q => \/ text[array[p]] <= text[array[q]]
             \/ \E k \in Created : p \in Pending(task[k]) /\ q \in Pending(task[k])

IInv ==
  /\ TypeOK /\ TeamInv
  /\ S!NoWordLost
  /\ PendingApart /\ PivotsPlaced /\ LoopInv
  /\ phase # "called" => OrderedButPending
==============================================================================
