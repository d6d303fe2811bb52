----------------------------- MODULE ParQuickSort ----------------------------
(***************************************************************************)
(* quicksort_parallel of src/sort_unique_words.c: the task recursion over  *)
(* the three-way partition.  A frame of OmpTasks is an activation of       *)
(* quicksort_parallel_recursive; the words equal to the pivot, from m1 to  *)
(* m2 - 1, belong to neither of the tasks it creates.  The partition is    *)
(* one step, with the outcome ParPartition shows every schedule of its     *)
(* blocks to have.                                                         *)
(***************************************************************************)
EXTENDS OmpTasks, ThreeWay

CONSTANT threshold   \* the code's 3000

ASSUME ThresholdAssumption == threshold \in Nat \ {0}

vars == <<input, array, team>>

\* The activation for words[l .. r - 1].
Task(l, r, at) == [left |-> l, right |-> r, at |-> at, m1 |-> l, m2 |-> r]

\* A faulty part that is the whole range.
FirstPart_whole(f) == Task(f.left, f.right, "deferred")

FirstPart(f)  == Task(f.left, f.m1, "deferred")
SecondPart(f) == Task(f.m2, f.right, "deferred")

------------------------------------------------------------------------------
Init ==
  /\ InputInit
  /\ TeamInit

quicksort_parallel ==
  /\ phase = "called"
  /\ IF count <= 1
     THEN phase' = "returned" /\ UNCHANGED <<task, stack>>
     ELSE EnterRegion(Task(0, count, "working"))
  /\ UNCHANGED <<input, array>>

\* A range of at most one word is left alone, one up to the threshold is sorted by
\* quick_sort_recursive.
Sequential(t) ==
  /\ Runs(t, "working")
  /\ LET f == task[Running(t)]
         n == f.right - f.left
     IN  /\ n <= 1 \/ n <= threshold
         /\ IF n <= 1 THEN UNCHANGED array ELSE array' \in QuickSorted(array, f.left, f.right - 1)
  /\ EndTask(t)
  /\ UNCHANGED input

\* A larger range: par_sort_partition, and a task for the first part.
Partition(t) ==
  /\ Runs(t, "working")
  /\ LET f == task[Running(t)] IN
       /\ f.right - f.left > 1 /\ f.right - f.left > threshold
       /\ \E pivot \in {par_pivot_select(text, array, f.left, f.right)} :
          \E s \in {Split(text, array, f.left, f.right, pivot)} :
          \E g \in {[f EXCEPT !.at = "spawning", !.m1 = s.m1, !.m2 = s.m2]} :
            /\ array' = s.array
            /\ CreateFirst(t, FirstPart(g), g)
  /\ UNCHANGED input

SpawnSecond(t) ==
  /\ Runs(t, "spawning")
  /\ LET f == task[Running(t)] IN CreateSecond(t, SecondPart(f), [f EXCEPT !.at = "waiting"])
  /\ UNCHANGED <<input, array>>

\* What the runtime does leaves the array alone.
Runtime(t) == (TaskWait(t) \/ Begin(t)) /\ UNCHANGED <<input, array>>
Leave      == LeaveRegion /\ UNCHANGED <<input, array>>
Returned   == phase = "returned" /\ UNCHANGED vars

Step(t) == Sequential(t) \/ Partition(t) \/ SpawnSecond(t) \/ Runtime(t)

Next == quicksort_parallel \/ (\E t \in Threads : Step(t)) \/ Leave \/ Returned

Spec == Init /\ [][Next]_vars

\* Every thread keeps running; one that waits looks for tasks.
FairSpec ==
  Spec /\ WF_vars(quicksort_parallel) /\ WF_vars(Leave) /\ \A t \in Threads : WF_vars(Step(t))

------------------------------------------------------------------------------
\* The ranges of two tasks that may be at work at once have no position in common:
\* neither the partitions nor the leaves need a lock around words.
NoDataRace ==
  \A j, k \in Created :
    (j # k /\ task[j].at = "working" /\ task[k].at = "working") =>
      task[j].right <= task[k].left \/ task[k].right <= task[j].left

\* While the two outer parts are sorted by whichever threads, the words equal to the
\* pivot, which no task gets, stay equal and between the smaller and the larger ones.
EqualsStayBetween ==
  \A k \in Created :
    task[k].at \in {"spawning", "waiting"} =>
      LET Text(p) == text[array[p]]
          pivot   == Text(task[k].m1)
      IN  /\ task[k].m1 < task[k].m2
          /\ \A p \in task[k].left .. (task[k].m1 - 1) : Text(p) < pivot
          /\ \A p \in task[k].m1 .. (task[k].m2 - 1) : Text(p) = pivot
          /\ \A p \in task[k].m2 .. (task[k].right - 1) : Text(p) > pivot

\* The range of a task that has ended is never touched again, although the code has
\* no lock and other tasks go on: nobody else was given a part of it.
EndedForGood ==
  [][\A k \in Created : task[k].at = "ended" =>
       \A p \in task[k].left .. (task[k].right - 1) : array'[p] = array[p]]_vars

\* However the team shares the tasks, the sort ends: every part is smaller than its
\* range, and no thread waits for a task that nobody will begin.
Termination == <>(phase = "returned")

\* The sort keeps the promise WordList relies on.
S == INSTANCE Sorting WITH done <- (phase = "returned")
Contract == S!Spec

------------------------------------------------------------------------------
(* The inductive invariant.                                                 *)

Frame == [left : Int, right : Int, at : SchedulingPoints, m1 : Int, m2 : Int]

TypeOK ==
  /\ count \in Counts
  /\ text \in [Positions -> Word]
  /\ array \in [Positions -> Positions]
  /\ \A k \in Created :
       /\ task[k] \in Frame
       /\ 0 <= task[k].left /\ task[k].left <= task[k].right /\ task[k].right <= count
       /\ task[k].left <= task[k].m1 /\ task[k].m1 <= task[k].m2 /\ task[k].m2 <= task[k].right

\* What a task has still to order itself or to hand to a task it has not created
\* yet: the positions from First to the one before its right end.
Unfinished(f) == f.at \in {"deferred", "working", "spawning"}
First(f)      == IF f.at = "spawning" THEN f.m2 ELSE f.left
Pending(f)    == IF Unfinished(f) THEN First(f) .. (f.right - 1) ELSE {}

\* What task f has still to order lies outside l .. r - 1.
Outside(f, l, r) == f.right <= l \/ r <= First(f)

\* No two tasks have to order the same position.
PendingApart ==
  \A j, k \in Created :
    (j # k /\ Unfinished(task[j]) /\ Unfinished(task[k])) =>
      Outside(task[j], First(task[k]), task[k].right)

\* What one task has to order lies on one side of another's equal words, or elsewhere.
EqualsPlaced ==
  \A j, k \in Created :
    (Unfinished(task[j]) /\ task[k].at \in {"spawning", "waiting"}) =>
      /\ Outside(task[j], task[k].m1, task[k].m2)
      /\ \/ Outside(task[j], task[k].left, task[k].right)
         \/ task[k].left <= First(task[j]) /\ task[j].right <= task[k].right

\* Nobody has to order a position of a task that has ended.
EndedApart ==
  \A j, k \in Created :
    task[k].at = "ended" => Pending(task[j]) \cap (task[k].left .. (task[k].right - 1)) = {}

\* The tasks a task has created have its outer parts.
PartsHandedOn ==
  \A k \in Created :
    /\ task[k].at \in {"spawning", "waiting"} =>
         task[2 * k].left = task[k].left /\ task[2 * k].right = task[k].m1
    /\ task[k].at = "waiting" =>
         task[2 * k + 1].left = task[k].m2 /\ task[2 * k + 1].right = task[k].right

\* Two words out of order are both still to be ordered by one task.
OrderedButPending ==
  \A p, q \in Positions :
    p < q => \/ text[array[p]] <= text[array[q]]
             \/ \E k \in Created : p \in Pending(task[k]) /\ q \in Pending(task[k])

IInv ==
  /\ TypeOK /\ TeamInv
  /\ S!NoWordLost
  /\ PendingApart /\ EqualsPlaced /\ EndedApart /\ PartsHandedOn
  /\ EqualsStayBetween
  /\ phase # "called" => OrderedButPending
==============================================================================
