------------------------- MODULE TaskQuickSortProofs -------------------------
(***************************************************************************)
(* Proofs about TaskQuickSort: for every team of threads, every threshold, *)
(* every set of array lengths and every set of words, the invariant IInv   *)
(* holds, and with it the absence of data races and of dangling shared     *)
(* parameters, the split around the pivots, and the refinement of Sorting. *)
(***************************************************************************)
EXTENDS TaskQuickSort, OmpTasksProofs

(***************************************************************************)
(* What the invariant says of the data.                                    *)
(***************************************************************************)
LEMMA DataFacts ==
  ASSUME IInv
  PROVE  /\ count \in Nat /\ text \in [Positions -> Word] /\ array \in [Positions -> Positions]
         /\ \A p \in Positions : p \in Int /\ text[p] \in Int /\ text[array[p]] \in Int
         /\ TextIsInt /\ Kept(array)
<1>1. count \in Nat /\ Word \subseteq Int
  BY CountsAssumption, WordAssumption DEF IInv, TypeOK
<1>2. text \in [Positions -> Word] /\ array \in [Positions -> Positions]
  BY DEF IInv, TypeOK
<1>3. \A p \in Positions : p \in Int /\ text[p] \in Int /\ text[array[p]] \in Int
  <2>1. \A p \in Positions : text[p] \in Int /\ array[p] \in Positions
    BY <1>1, <1>2
  <2>2. \A p \in Positions : p \in Int
    BY <1>1 DEF Positions
  <2>3. QED
    BY <2>1, <2>2
<1>4. Kept(array)
  BY DEF IInv, S!NoWordLost, S!Positions, Kept, Positions
<1>5. QED
  BY <1>1, <1>2, <1>3, <1>4 DEF TextIsInt

\* The bounds of a frame.
Bounded(f) ==
  /\ f \in Frame
  /\ f.left \in Int /\ f.right \in Int /\ f.i \in Int /\ f.idx \in Int
  /\ 0 <= f.left /\ f.left <= f.right + 1 /\ f.right < count
  /\ f.left <= f.idx /\ f.idx <= f.i
  /\ f.at \in {"looping", "spawning", "waiting"} => f.i < f.right

LEMMA FrameFacts ==
  ASSUME IInv, NEW k \in Created
  PROVE  Bounded(task[k]) /\ "at" \in DOMAIN task[k]
BY DEF IInv, TypeOK, Frame, Bounded

\* The frames of a step make up TypeOK again.
LEMMA TypeAgain ==
  ASSUME IInv, UNCHANGED input, array' \in [Positions -> Positions],
         \A k \in Created' : Bounded(task'[k])
  PROVE  TypeOK' /\ Positions' = Positions
<1>1. count' = count /\ text' = text
  BY DEF input
<1>2. Positions' = Positions
  BY <1>1 DEF Positions
<1>3. Frame' = Frame
  BY DEF Frame
<1>4. QED
  BY <1>1, <1>2, <1>3 DEF IInv, TypeOK, Bounded

LEMMA UnfinishedFacts ==
  ASSUME NEW f
  PROVE  /\ f.at = "spawning" => Pending(f) = (f.idx + 1) .. f.right
         /\ f.at \in {"deferred", "working", "looping"} =>
              Unfinished(f) /\ First(f) = f.left /\ Pending(f) = f.left .. f.right
         /\ f.at \in {"waiting", "ended"} => ~Unfinished(f) /\ Pending(f) = {}
BY DEF Pending, Unfinished, First

(***************************************************************************)
(* A task rewrites its range: the others do not see it.                    *)
(***************************************************************************)
LEMMA RangeRewritten ==
  ASSUME IInv, NEW r \in Created, task[r].at \in {"working", "looping"}, UNCHANGED input,
         Rearranged(array, array', task[r].left, task[r].right)
  PROVE  /\ array' \in [Positions -> Positions]
         /\ S!NoWordLost'
         /\ \A k \in Created \ {r} :
              task[k].at = "looping" /\ task'[k] = task[k] => Passed(array', task[k])
         /\ \A p, q \in Positions :
              p < q /\ ~(p \in task[r].left .. task[r].right /\ q \in task[r].left .. task[r].right) =>
                \/ text[array'[p]] <= text[array'[q]]
                \/ \E k \in Created \ {r} : p \in Pending(task[k]) /\ q \in Pending(task[k])
<1> DEFINE lo == task[r].left
           hi == task[r].right
           K  == Created \ {r}
           P  == [k \in K |-> Pending(task[k])]
<1>1. /\ Bounded(task[r]) /\ lo \in Int /\ hi \in Int
      /\ Unfinished(task[r]) /\ First(task[r]) = lo /\ Pending(task[r]) = lo .. hi
  BY FrameFacts, UnfinishedFacts DEF Bounded
<1>2. count' = count /\ text' = text /\ Positions' = Positions
  BY DEF input, Positions
<1>3. array' \in [Positions -> Positions]
  BY DEF Rearranged
<1>4. S!NoWordLost'
  <2>1. Kept(array')
    BY DataFacts DEF Rearranged
  <2>2. QED
    BY <1>2, <2>1 DEF Kept, Positions, S!NoWordLost, S!Positions
<1>5. \A k \in K : \A p \in lo .. hi : p \notin P[k]
  <2>1. TAKE k \in K
  <2>2. Bounded(task[k]) /\ First(task[k]) \in Int /\ task[k].right \in Int
    BY FrameFacts DEF First, Bounded
  <2>3. Unfinished(task[k]) => task[k].right < lo \/ hi < First(task[k])
    BY <1>1 DEF IInv, PendingApart
  <2>4. QED
    BY <1>1, <2>2, <2>3 DEF Pending
<1>6. \A p \in Positions : p \notin lo .. hi => array'[p] = array[p]
  BY DEF Rearranged
<1>7. ASSUME NEW k \in K, task[k].at = "looping", task'[k] = task[k]
      PROVE  Passed(array', task[k])
  <2>1. Bounded(task[k]) /\ Passed(array, task[k]) /\ Pending(task[k]) = task[k].left .. task[k].right
    BY <1>7, FrameFacts, UnfinishedFacts DEF IInv, LoopInv
  <2>2. \A p \in task[k].left .. task[k].right : array'[p] = array[p]
    <3>1. TAKE p \in task[k].left .. task[k].right
    <3>2. p \in Positions
      BY <2>1, DataFacts DEF Bounded, Positions
    <3>3. p \notin lo .. hi
      BY <1>5, <2>1
    <3>4. QED
      BY <1>6, <3>2, <3>3
  <2>3. task[k].i < task[k].right
    BY <1>7, <2>1 DEF Bounded
  <2>4. /\ task[k].left .. (task[k].idx - 1) \subseteq task[k].left .. task[k].right
        /\ task[k].idx .. (task[k].i - 1) \subseteq task[k].left .. task[k].right
        /\ {task[k].right - 1, task[k].right} \subseteq task[k].left .. task[k].right
    BY SMTT(30), <2>1, <2>3 DEF Bounded
  <2>5. QED
    BY <1>2, <1>7, <2>1, <2>2, <2>4 DEF Passed
<1>8. phase # "called"
  BY InRegion DEF IInv
<1>9. OrderedOutside(array, lo, hi, K, P)
  BY <1>1, <1>8 DEF IInv, OrderedButPending, OrderedOutside
<1>10. OrderedOutside(array', lo, hi, K, P)
  <2>1. ApartFrom(lo, hi, K, P)
    BY <1>5 DEF ApartFrom
  <2>2. array \in [Positions -> Positions] /\ count \in Nat /\ TextIsInt
    BY DataFacts
  <2>3. Rearranged(array, array', lo, hi)
    OBVIOUS
  <2> HIDE DEF lo, hi, K, P
  <2>4. QED
    BY <1>1, <1>9, <2>1, <2>2, <2>3, OthersStayOrdered
<1>11. QED
  BY <1>3, <1>4, <1>7, <1>10 DEF OrderedOutside

(***************************************************************************)
(* The invariant holds initially and every action keeps it.                *)
(***************************************************************************)
LEMMA InitIInv == Init => IInv
<1> SUFFICES ASSUME Init PROVE IInv
  OBVIOUS
<1>1. TeamInv /\ Created = {} /\ phase = "called"
  BY TeamInitially DEF Init, TeamInit
<1>2. count \in Nat /\ text \in [Positions -> Word] /\ array = [p \in Positions |-> p]
  BY CountsAssumption DEF Init, InputInit
<1>3. TypeOK
  BY <1>1, <1>2 DEF Init, InputInit, TypeOK
<1>4. S!NoWordLost
  BY <1>2 DEF S!NoWordLost, S!Positions, Positions
<1>5. PendingApart /\ PivotsPlaced /\ LoopInv
  BY <1>1 DEF PendingApart, PivotsPlaced, LoopInv
<1>6. QED
  BY <1>1, <1>3, <1>4, <1>5 DEF IInv

LEMMA CallKeepsIInv == IInv /\ quick_sort_words_parallel => IInv'
<1> SUFFICES ASSUME IInv, quick_sort_words_parallel PROVE IInv'
  OBVIOUS
<1>1. TeamInv /\ phase = "called" /\ UNCHANGED input /\ array' = array
  BY DEF quick_sort_words_parallel, IInv, input
<1>2. count' = count /\ text' = text /\ Positions' = Positions
  BY <1>1 DEF input, Positions
<1>3. count \in Nat /\ array' \in [Positions -> Positions]
  BY <1>1, DataFacts
<1>4. S!NoWordLost'
  BY <1>1, <1>2 DEF IInv, S!NoWordLost, S!Positions
<1>5. CASE count <= 1
  <2>1. TeamInv' /\ Created' = {}
    BY <1>1, <1>5, ReturnAtOnce DEF quick_sort_words_parallel
  <2>2. TypeOK'
    BY <1>1, <1>3, <2>1, TypeAgain
  <2>3. PendingApart' /\ PivotsPlaced' /\ LoopInv'
    BY <2>1 DEF PendingApart, PivotsPlaced, LoopInv
  <2>4. OrderedButPending'
    BY <1>2, <1>3, <1>5 DEF OrderedButPending, Positions
  <2>5. QED
    BY <1>4, <2>1, <2>2, <2>3, <2>4 DEF IInv
<1>6. CASE count > 1
  <2> DEFINE f == Task(0, count - 1, "working")
  <2>1. Bounded(f) /\ f.at = "working" /\ f.left = 0 /\ f.right = count - 1
    BY <1>3, <1>6 DEF Task, Bounded, Frame, Points, SchedulingPoints
  <2>2. EnterRegion(f)
    BY <1>3, <1>6 DEF quick_sort_words_parallel
  <2> HIDE DEF f
  <2>3. TeamInv' /\ Created' = {1} /\ task'[1] = f
    BY <1>1, <2>1, <2>2, EnterRegionFacts DEF Early
  <2>4. TypeOK'
    BY <1>1, <1>3, <2>1, <2>3, TypeAgain
  <2>5. Pending(f) = 0 .. (count - 1)
    BY <2>1, UnfinishedFacts
  <2>6. PendingApart' /\ PivotsPlaced' /\ LoopInv'
    BY <2>1, <2>3 DEF PendingApart, PivotsPlaced, LoopInv
  <2>7. OrderedButPending'
    <3>1. \A p \in Positions : p \in Pending(task'[1])
      BY <2>3, <2>5 DEF Positions
    <3>2. QED
      BY <1>2, <2>3, <3>1 DEF OrderedButPending
  <2>8. QED
    BY <1>4, <2>3, <2>4, <2>6, <2>7 DEF IInv
<1>7. QED
  BY <1>3, <1>5, <1>6

LEMMA SequentialKeepsIInv == ASSUME NEW t \in Threads, IInv, Sequential(t) PROVE IInv'
<1> DEFINE r == Running(t)
           f == task[r]
<1>1. /\ stack[t] # <<>> /\ f.at = "working" /\ EndTask(t) /\ UNCHANGED input
      /\ IF f.left < f.right THEN array' \in QuickSorted(array, f.left, f.right) ELSE array' = array
  BY DEF Sequential, Runs, input
<1>2. r \in Created /\ TeamInv /\ Bounded(f) /\ "at" \in DOMAIN f /\ Early(f.at)
  BY <1>1, RunningIsCreated, FrameFacts DEF IInv, Early
<1>3. /\ TeamInv' /\ Created' = Created /\ phase' = phase
      /\ task'[r].at = "ended" /\ task'[r] = [f EXCEPT !.at = "ended"]
      /\ \A k \in Created \ {r} : task'[k] = task[k]
  BY <1>1, <1>2, EndTaskFacts
<1> HIDE DEF r
<1>4. /\ Rearranged(array, array', f.left, f.right)
      /\ \A p, q \in f.left .. f.right : p < q => text[array'[p]] <= text[array'[q]]
  <2>1. count \in Nat /\ array \in [Positions -> Positions]
    BY DataFacts
  <2>2. CASE f.left < f.right
    <3> DEFINE lo == f.left
               hi == f.right
    <3>1. lo \in Int /\ hi \in Int /\ 0 <= lo /\ hi < count
      BY <1>2 DEF Bounded
    <3>2. array' \in QuickSorted(array, lo, hi)
      BY <1>1, <2>2
    <3> HIDE DEF lo, hi
    <3>3. /\ Rearranged(array, array', lo, hi)
          /\ \A p, q \in lo .. hi : p < q => text[array'[p]] <= text[array'[q]]
      BY <2>1, <3>1, <3>2, QuickSortedFacts
    <3>4. QED
      BY <3>3 DEF lo, hi
  <2>3. CASE ~(f.left < f.right)
    <3>1. array' = array
      BY <1>1, <2>3
    <3>2. Rearranged(array, array', f.left, f.right)
      BY <2>1, <3>1, NothingRearranged
    <3>3. \A p, q \in f.left .. f.right : ~(p < q)
      BY <1>2, <2>3 DEF Bounded
    <3>4. QED
      BY <3>2, <3>3
  <2>4. QED
    BY <2>2, <2>3
<1>5. /\ array' \in [Positions -> Positions] /\ S!NoWordLost'
      /\ \A k \in Created \ {r} : task[k].at = "looping" => Passed(array', task[k])
      /\ \A p, q \in Positions :
           p < q /\ ~(p \in f.left .. f.right /\ q \in f.left .. f.right) =>
             \/ text[array'[p]] <= text[array'[q]]
             \/ \E k \in Created \ {r} : p \in Pending(task[k]) /\ q \in Pending(task[k])
  BY <1>1, <1>2, <1>3, <1>4, RangeRewritten
<1>6. Bounded(task'[r])
  BY <1>2, <1>3 DEF Bounded, Frame, Points, SchedulingPoints
<1>7. TypeOK' /\ Positions' = Positions
  BY <1>1, <1>3, <1>5, <1>6, FrameFacts, TypeAgain
<1>8. ~Unfinished(task'[r]) /\ Pending(task'[r]) = {}
  BY <1>3, UnfinishedFacts
<1>9. PendingApart'
  BY <1>3, <1>8 DEF IInv, PendingApart
<1>10. PivotsPlaced'
  BY <1>3, <1>8 DEF IInv, PivotsPlaced
<1>11. LoopInv'
  <2>1. text' = text
    BY <1>1 DEF input
  <2>2. \A k \in Created : task'[k].at = "looping" => Passed(array', task'[k])
    BY <1>3, <1>5
  <2>3. QED
    BY <1>3, <2>1, <2>2 DEF LoopInv, Passed
<1>12. OrderedButPending'
  <2>1. text' = text
    BY <1>1 DEF input
  <2>2. SUFFICES ASSUME NEW p \in Positions, NEW q \in Positions, p < q
                 PROVE  \/ text[array'[p]] <= text[array'[q]]
                        \/ \E k \in Created' : p \in Pending(task'[k]) /\ q \in Pending(task'[k])
    BY <1>7, <2>1 DEF OrderedButPending
  <2>3. QED
    BY <1>3, <1>4, <1>5, <2>2
<1>13. QED
  BY <1>3, <1>5, <1>7, <1>9, <1>10, <1>11, <1>12 DEF IInv

\* A task that has partitioned a part of its range, which it has permuted, goes on.
LEMMA LoopingKeepsIInv ==
  ASSUME IInv, NEW t \in Threads, stack[t] # <<>>,
         task[Running(t)].at \in {"working", "looping"}, UNCHANGED input,
         Rearranged(array, array', task[Running(t)].left, task[Running(t)].right),
         NEW g, GoOn(t, g), Bounded(g), g.at = "looping",
         g.left = task[Running(t)].left, g.right = task[Running(t)].right,
         Passed(array', g)
  PROVE  IInv'
<1> DEFINE r == Running(t)
           f == task[r]
<1>1. r \in Created /\ TeamInv /\ Early(f.at) /\ f.at \in {"working", "looping"}
  BY RunningIsCreated DEF IInv, Early
<1>2. Early(g.at)
  BY DEF Early
<1>3. /\ TeamInv' /\ Created' = Created /\ phase' = phase
      /\ task'[r] = g /\ \A k \in Created \ {r} : task'[k] = task[k]
  BY <1>1, <1>2, GoOnFacts
<1>4. g.at = "looping" /\ g.left = f.left /\ g.right = f.right /\ Passed(array', g)
  OBVIOUS
<1>5. Rearranged(array, array', f.left, f.right)
  OBVIOUS
<1> HIDE DEF r
<1>6. /\ array' \in [Positions -> Positions] /\ S!NoWordLost'
      /\ \A k \in Created \ {r} : task[k].at = "looping" => Passed(array', task[k])
      /\ \A p, q \in Positions :
           p < q /\ ~(p \in f.left .. f.right /\ q \in f.left .. f.right) =>
             \/ text[array'[p]] <= text[array'[q]]
             \/ \E k \in Created \ {r} : p \in Pending(task[k]) /\ q \in Pending(task[k])
  BY <1>1, <1>3, <1>5, RangeRewritten
<1>7. text' = text
  BY DEF input
<1>8. TypeOK' /\ Positions' = Positions
  BY <1>3, <1>6, FrameFacts, TypeAgain
<1>9. /\ Unfinished(g) /\ First(g) = f.left /\ Pending(g) = f.left .. f.right
      /\ Unfinished(f) /\ First(f) = f.left /\ Pending(f) = f.left .. f.right
  BY <1>1, <1>4, UnfinishedFacts
<1>10. \A k \in Created :
         /\ Unfinished(task'[k]) <=> Unfinished(task[k])
         /\ First(task'[k]) = First(task[k]) /\ Pending(task'[k]) = Pending(task[k])
         /\ task'[k].right = task[k].right
  BY <1>3, <1>4, <1>9
<1>11. PendingApart'
  BY <1>3, <1>10 DEF IInv, PendingApart
<1>12. PivotsPlaced'
  BY <1>3, <1>4, <1>10 DEF IInv, PivotsPlaced
<1>13. LoopInv'
  <2>1. \A k \in Created : task'[k].at = "looping" => Passed(array', task'[k])
    BY <1>3, <1>4, <1>6
  <2>2. QED
    BY <1>3, <1>7, <2>1 DEF LoopInv, Passed
<1>14. OrderedButPending'
  <2>1. SUFFICES ASSUME NEW p \in Positions, NEW q \in Positions, p < q
                 PROVE  \/ text[array'[p]] <= text[array'[q]]
                        \/ \E k \in Created : p \in Pending(task[k]) /\ q \in Pending(task[k])
    BY <1>3, <1>7, <1>8, <1>10 DEF OrderedButPending
  <2>2. CASE p \in f.left .. f.right /\ q \in f.left .. f.right
    BY <1>1, <1>9, <2>2
  <2>3. CASE ~(p \in f.left .. f.right /\ q \in f.left .. f.right)
    BY <1>6, <2>1, <2>3
  <2>4. QED
    BY <2>2, <2>3
<1>15. QED
  BY <1>3, <1>6, <1>8, <1>11, <1>12, <1>13, <1>14 DEF IInv

\* The median of three is a rearrangement; the pivot is before the last place, and
\* the word at the last place is not smaller.
LEMMA MedianFacts ==
  ASSUME count \in Nat, TextIsInt, NEW a \in [Positions -> Positions],
         NEW left \in Int, NEW right \in Int, 0 <= left, left < right, right < count,
         NEW b, b = MedianOfThree(a, left, right)
  PROVE  Rearranged(a, b, left, right) /\ text[b[right - 1]] <= text[b[right]]
<1> DEFINE mid == left + ((right - left) \div 2)
           a1  == IF text[a[left]] > text[a[mid]] THEN swap_words(a, left, mid) ELSE a
           a2  == IF text[a1[left]] > text[a1[right]] THEN swap_words(a1, left, right) ELSE a1
           a3  == IF text[a2[mid]] > text[a2[right]] THEN swap_words(a2, mid, right) ELSE a2
<1>1. /\ mid \in left .. right /\ mid < right
      /\ left \in left .. right /\ right \in left .. right /\ right - 1 \in left .. right
      /\ left \in Positions /\ mid \in Positions
      /\ right \in Positions /\ right - 1 \in Positions
  BY DEF Positions
<1>2. b = swap_words(a3, mid, right - 1)
  BY DEF MedianOfThree
<1> HIDE DEF mid
<1>3. a1 \in [Positions -> Positions] /\ Rearranged(a, a1, left, right)
  <2>1. Rearranged(a, swap_words(a, left, mid), left, right)
    BY <1>1, SwapRearranges
  <2>2. Rearranged(a, a1, left, right)
    BY <2>1, NothingRearranged
  <2>3. QED
    BY <2>2 DEF Rearranged
<1> HIDE DEF a1
<1>4. a2 \in [Positions -> Positions] /\ Rearranged(a, a2, left, right)
  <2>1. Rearranged(a1, swap_words(a1, left, right), left, right)
    BY <1>1, <1>3, SwapRearranges
  <2>2. Rearranged(a, a2, left, right)
    BY <1>3, <2>1, RearrangedTwice
  <2>3. QED
    BY <2>2 DEF Rearranged
<1> HIDE DEF a2
<1>5. /\ a3 \in [Positions -> Positions] /\ Rearranged(a, a3, left, right)
      /\ text[a3[mid]] <= text[a3[right]]
  <2> DEFINE s == swap_words(a2, mid, right)
  <2>1. Rearranged(a2, s, left, right) /\ s[mid] = a2[right] /\ s[right] = a2[mid]
    BY <1>1, <1>4, SwapRearranges
  <2>2. text[a2[mid]] \in Int /\ text[a2[right]] \in Int
    BY <1>1, <1>4 DEF TextIsInt
  <2>3. Rearranged(a, s, left, right)
    BY <1>4, <2>1, RearrangedTwice
  <2> HIDE DEF s
  <2>4. a3 = IF text[a2[mid]] > text[a2[right]] THEN s ELSE a2
    BY DEF s
  <2>5. Rearranged(a, a3, left, right)
    BY <1>4, <2>3, <2>4
  <2>6. text[a3[mid]] <= text[a3[right]]
    BY <2>1, <2>2, <2>4
  <2>7. QED
    BY <2>5, <2>6 DEF Rearranged
<1> HIDE DEF a3
<1>6. /\ Rearranged(a3, b, left, right) /\ b[right - 1] = a3[mid]
      /\ right # mid /\ right # right - 1 => b[right] = a3[right]
  BY <1>1, <1>2, <1>5, SwapRearranges
<1>7. b[right] = a3[right]
  BY <1>1, <1>6
<1>8. Rearranged(a, b, left, right)
  BY <1>5, <1>6, RearrangedTwice
<1>9. QED
  BY <1>5, <1>6, <1>7, <1>8

LEMMA PivotSelectKeepsIInv == ASSUME NEW t \in Threads, IInv, PivotSelect(t) PROVE IInv'
<1> DEFINE f == task[Running(t)]
           g == [f EXCEPT !.at = "looping", !.i = f.left, !.idx = f.left]
<1>1. /\ stack[t] # <<>> /\ f.at = "working" /\ UNCHANGED input /\ GoOn(t, g)
      /\ f.left < f.right /\ array' = MedianOfThree(array, f.left, f.right)
  BY DEF PivotSelect, Runs, input
<1>2. Bounded(f)
  BY <1>1, RunningIsCreated, FrameFacts DEF IInv
<1>3. /\ g \in Frame /\ g.at = "looping" /\ g.left = f.left /\ g.right = f.right
      /\ g.i = f.left /\ g.idx = f.left
  BY <1>2 DEF Bounded, Frame, Points
<1>4. Bounded(g)
  BY <1>1, <1>2, <1>3 DEF Bounded
<1>5. Rearranged(array, array', f.left, f.right) /\ text[array'[f.right - 1]] <= text[array'[f.right]]
  <2> DEFINE lo == f.left
             hi == f.right
             b == array'
  <2>1. lo \in Int /\ hi \in Int /\ 0 <= lo /\ lo < hi /\ hi < count /\ b = MedianOfThree(array, lo, hi)
    BY <1>1, <1>2 DEF Bounded
  <2> HIDE DEF lo, hi, b
  <2>2. Rearranged(array, b, lo, hi) /\ text[b[hi - 1]] <= text[b[hi]]
    BY <2>1, DataFacts, MedianFacts
  <2>3. QED
    BY <2>2 DEF lo, hi, b
<1> HIDE DEF g
<1>6. Passed(array', g)
  BY <1>2, <1>3, <1>5 DEF Passed, Bounded
<1>7. f.at \in {"working", "looping"}
  BY <1>1
<1>8. QED
  BY <1>1, <1>3, <1>4, <1>5, <1>6, <1>7, LoopingKeepsIInv

LEMMA CompareKeepsIInv == ASSUME NEW t \in Threads, IInv, Compare(t) PROVE IInv'
<1> DEFINE f     == task[Running(t)]
           pivot == text[array[f.right - 1]]
<1>1. stack[t] # <<>> /\ f.at = "looping" /\ UNCHANGED input /\ f.i < f.right - 1
  BY DEF Compare, Runs, input, LoopEnd
<1>2. /\ IF text[array[f.i]] < pivot
         THEN /\ array' = swap_words(array, f.idx, f.i)
              /\ GoOn(t, [f EXCEPT !.i = @ + 1, !.idx = @ + 1])
         ELSE GoOn(t, [f EXCEPT !.i = @ + 1]) /\ array' = array
  BY DEF Compare
<1>3. Bounded(f) /\ Passed(array, f)
  BY <1>1, RunningIsCreated, FrameFacts DEF IInv, LoopInv
<1>4. /\ array \in [Positions -> Positions] /\ count \in Nat
      /\ \A p \in Positions : text[array[p]] \in Int
  BY DataFacts
<1>5. /\ f.left \in Int /\ f.right \in Int /\ f.idx \in Int /\ f.i \in Int
      /\ f.idx \in Positions /\ f.i \in Positions /\ f.right \in Positions /\ f.right - 1 \in Positions
      /\ f.idx \in f.left .. f.right /\ f.i \in f.left .. f.right
      /\ \A p \in f.left .. f.right : p \in Positions
      /\ 0 <= f.left /\ f.left <= f.idx /\ f.idx <= f.i /\ f.right < count
  <2>1. /\ f.left \in Int /\ f.right \in Int /\ f.idx \in Int /\ f.i \in Int
        /\ 0 <= f.left /\ f.left <= f.idx /\ f.idx <= f.i /\ f.right < count
    BY <1>3 DEF Bounded
  <2>2. f.i < f.right - 1 /\ count \in Nat
    BY <1>1, <1>4
  <2> HIDE DEF f
  <2>3. \A p \in f.left .. f.right : p \in Positions
    BY <2>1, <2>2 DEF Positions
  <2>4. {f.idx, f.i, f.right, f.right - 1} \subseteq f.left .. f.right
    BY <2>1, <2>2
  <2>5. QED
    BY <2>1, <2>3, <2>4
<1>6. /\ \A p \in f.left .. (f.idx - 1) : text[array[p]] < pivot
      /\ \A p \in f.idx .. (f.i - 1) : pivot <= text[array[p]]
      /\ pivot <= text[array[f.right]]
  BY <1>3 DEF Passed
<1>7. pivot \in Int /\ f.at \in {"working", "looping"}
  BY <1>1, <1>4, <1>5
<1>8. CASE text[array[f.i]] < pivot
  <2> DEFINE g == [f EXCEPT !.i = @ + 1, !.idx = @ + 1]
             b == array'
  <2>1. b = swap_words(array, f.idx, f.i) /\ GoOn(t, g)
    BY <1>2, <1>8
  <2>2. /\ g \in Frame /\ g.at = "looping" /\ g.left = f.left /\ g.right = f.right
        /\ g.i = f.i + 1 /\ g.idx = f.idx + 1
    <3> DEFINE x == f.i + 1
               y == f.idx + 1
    <3>1. f \in Frame /\ x \in Int /\ y \in Int /\ g = [f EXCEPT !.i = x, !.idx = y]
      BY <1>3, <1>5 DEF Bounded
    <3> HIDE DEF f, g, x, y
    <3>2. g \in Frame
      BY <3>1 DEF Frame
    <3>3. g.at = f.at /\ g.left = f.left /\ g.right = f.right /\ g.i = x /\ g.idx = y
      BY <3>1 DEF Frame
    <3>4. QED
      BY <1>1, <3>2, <3>3 DEF x, y
  <2> HIDE DEF g, b
  <2>3. Bounded(g)
    <3>1. /\ f.left \in Int /\ f.right \in Int /\ f.idx \in Int /\ f.i \in Int /\ count \in Nat
          /\ 0 <= f.left /\ f.left <= f.idx /\ f.idx <= f.i /\ f.i < f.right - 1 /\ f.right < count
      BY <1>1, <1>4, <1>5
    <3> HIDE DEF f
    <3>2. QED
      BY <2>2, <3>1 DEF Bounded
  <2>4. /\ Rearranged(array, b, f.left, f.right)
        /\ b[f.idx] = array[f.i] /\ b[f.i] = array[f.idx]
        /\ \A p \in Positions : p # f.idx /\ p # f.i => b[p] = array[p]
    BY <1>4, <1>5, <2>1, SwapRearranges
  <2>5. b[f.right] = array[f.right] /\ b[f.right - 1] = array[f.right - 1]
    BY <1>1, <1>5, <2>4
  <2>6. \A p \in f.left .. f.idx : text[b[p]] < pivot
    <3>1. TAKE p \in f.left .. f.idx
    <3>2. CASE p = f.idx
      BY <1>8, <2>4, <3>2
    <3>3. CASE p # f.idx
      <4>1. p \in Positions /\ p # f.i /\ p \in f.left .. (f.idx - 1)
        BY <1>1, <1>5, <3>3
      <4>2. QED
        BY <1>6, <2>4, <3>3, <4>1
    <3>4. QED
      BY <3>2, <3>3
  <2>7. \A p \in (f.idx + 1) .. f.i : pivot <= text[b[p]]
    <3>1. TAKE p \in (f.idx + 1) .. f.i
    <3>2. CASE p = f.i
      <4>1. f.idx \in f.idx .. (f.i - 1)
        BY <1>5, <3>2
      <4>2. QED
        BY <1>6, <2>4, <3>2, <4>1
    <3>3. CASE p # f.i
      <4>1. p \in Positions /\ p # f.idx /\ p \in f.idx .. (f.i - 1)
        BY <1>1, <1>5, <3>3
      <4>2. QED
        BY <1>6, <2>4, <3>3, <4>1
    <3>4. QED
      BY <3>2, <3>3
  <2>8. Passed(b, g)
    BY <1>5, <1>6, <2>2, <2>5, <2>6, <2>7 DEF Passed
  <2>9. QED
    BY <1>1, <1>7, <2>1, <2>2, <2>3, <2>4, <2>8, LoopingKeepsIInv DEF b
<1>9. CASE ~(text[array[f.i]] < pivot)
  <2> DEFINE g == [f EXCEPT !.i = @ + 1]
  <2>1. array' = array /\ GoOn(t, g)
    BY <1>2, <1>9
  <2>2. /\ g \in Frame /\ g.at = "looping" /\ g.left = f.left /\ g.right = f.right
        /\ g.i = f.i + 1 /\ g.idx = f.idx
    BY <1>1, <1>3, <1>5 DEF Bounded, Frame
  <2> HIDE DEF g
  <2>3. Bounded(g)
    BY SMTT(30), <1>1, <1>5, <2>2 DEF Bounded
  <2>4. Rearranged(array, array', f.left, f.right)
    BY <1>4, <2>1, NothingRearranged
  <2>5. \A p \in f.idx .. f.i : pivot <= text[array[p]]
    <3>1. TAKE p \in f.idx .. f.i
    <3>2. CASE p = f.i
      BY <1>4, <1>5, <1>7, <1>9, <3>2
    <3>3. CASE p # f.i
      <4>1. p \in f.idx .. (f.i - 1)
        BY <1>5, <3>3
      <4>2. QED
        BY <1>6, <4>1
    <3>4. QED
      BY <3>2, <3>3
  <2>6. Passed(array', g)
    BY <1>5, <1>6, <2>1, <2>2, <2>5 DEF Passed
  <2>7. QED
    BY <1>1, <1>7, <2>1, <2>2, <2>3, <2>4, <2>6, LoopingKeepsIInv
<1>10. QED
  BY <1>8, <1>9

LEMMA SpawnFirstKeepsIInv == ASSUME NEW t \in Threads, IInv, SpawnFirst(t) PROVE IInv'
<1> DEFINE r == Running(t)
           f == task[r]
           g == [f EXCEPT !.at = "spawning"]
           c == FirstPart(f)
           n == 2 * r
           pivot == text[array[f.right - 1]]
<1>1. /\ stack[t] # <<>> /\ f.at = "looping" /\ UNCHANGED input /\ f.i >= f.right - 1
      /\ array' = swap_words(array, f.idx, f.right - 1) /\ Create(t, n, c, g)
  BY DEF SpawnFirst, Runs, input, LoopEnd, CreateFirst
<1>2. r \in Created /\ TeamInv /\ Bounded(f) /\ Passed(array, f) /\ Early(f.at) /\ f.at # "ended"
  BY <1>1, RunningIsCreated, FrameFacts DEF IInv, LoopInv, Early
<1>3. /\ g \in Frame /\ g.at = "spawning" /\ g.left = f.left /\ g.right = f.right
      /\ g.i = f.i /\ g.idx = f.idx
  BY <1>2 DEF Bounded, Frame, Points, SchedulingPoints
<1>4. /\ c \in Frame /\ c.at = "deferred" /\ c.left = f.left /\ c.right = f.idx - 1
      /\ c.i = c.left /\ c.idx = c.left
  BY <1>2 DEF Bounded, FirstPart, Task, Frame, Points, SchedulingPoints
<1>5. /\ f.left \in Int /\ f.right \in Int /\ f.idx \in Int /\ f.i \in Int
      /\ 0 <= f.left /\ f.left <= f.idx /\ f.idx <= f.i /\ f.i = f.right - 1 /\ f.right < count
      /\ count \in Nat
  BY <1>1, <1>2, DataFacts DEF Bounded
<1> HIDE DEF g, c
<1>6. Bounded(g) /\ Bounded(c)
  BY <1>3, <1>4, <1>5 DEF Bounded
<1>7. /\ TeamInv' /\ Created' = Created \cup {n} /\ n \notin Created /\ phase' = phase
      /\ task'[n] = c /\ task'[r] = g /\ \A j \in Created \ {r} : task'[j] = task[j]
  <2>1. Early(c.at)
    BY <1>4 DEF Early
  <2>2. QED
    BY <1>1, <1>2, <1>3, <2>1, CreateFacts
<1> HIDE DEF r, n
<1>8. /\ f.idx \in Positions /\ f.right \in Positions /\ f.right - 1 \in Positions
      /\ f.idx \in f.left .. f.right /\ f.right - 1 \in f.left .. f.right
      /\ \A p \in f.left .. f.right : p \in Positions
  BY <1>5 DEF Positions
<1>9. /\ Rearranged(array, array', f.left, f.right)
      /\ array'[f.idx] = array[f.right - 1] /\ array'[f.right - 1] = array[f.idx]
      /\ \A p \in Positions : p # f.idx /\ p # f.right - 1 => array'[p] = array[p]
  <2> DEFINE b == array'
  <2>1. b = swap_words(array, f.idx, f.right - 1) /\ array \in [Positions -> Positions]
    BY <1>1, DataFacts
  <2> HIDE DEF b, f
  <2>2. /\ Rearranged(array, b, f.left, f.right)
        /\ b[f.idx] = array[f.right - 1] /\ b[f.right - 1] = array[f.idx]
        /\ \A p \in Positions : p # f.idx /\ p # f.right - 1 => b[p] = array[p]
    BY <1>5, <1>8, <2>1, SwapRearranges
  <2>3. QED
    BY <2>2 DEF b
<1>10. /\ array' \in [Positions -> Positions] /\ S!NoWordLost'
       /\ \A k \in Created \ {r} : task[k].at = "looping" => Passed(array', task[k])
       /\ \A p, q \in Positions :
            p < q /\ ~(p \in f.left .. f.right /\ q \in f.left .. f.right) =>
              \/ text[array'[p]] <= text[array'[q]]
              \/ \E k \in Created \ {r} : p \in Pending(task[k]) /\ q \in Pending(task[k])
  <2>1. f.at \in {"working", "looping"}
    BY <1>1
  <2>2. QED
    BY <1>1, <1>2, <1>7, <1>9, <2>1, RangeRewritten
<1>11. text' = text
  BY <1>1 DEF input
<1>12. TypeOK' /\ Positions' = Positions
  <2>1. \A k \in Created' : Bounded(task'[k])
    BY <1>6, <1>7, FrameFacts
  <2>2. QED
    BY <1>1, <1>10, <2>1, TypeAgain
<1>13. /\ Unfinished(f) /\ First(f) = f.left /\ Pending(f) = f.left .. f.right
       /\ First(g) = f.idx + 1 /\ Pending(g) = (f.idx + 1) .. f.right
       /\ Unfinished(c) /\ First(c) = f.left /\ Pending(c) = f.left .. (f.idx - 1)
  BY <1>1, <1>3, <1>4, UnfinishedFacts DEF First
<1>14. PendingApart'
  <2>1. \A k \in Created \ {r} : Unfinished(task[k]) =>
          task[k].right < f.left \/ f.right < First(task[k])
    BY <1>2, <1>13 DEF IInv, PendingApart
  <2>2. \A k \in Created : First(task[k]) \in Int /\ task[k].right \in Int
    BY FrameFacts DEF First, Bounded
  <2>3. SUFFICES ASSUME NEW j \in Created', NEW k \in Created', j # k,
                        Unfinished(task'[j]), Unfinished(task'[k])
                 PROVE  task'[j].right < First(task'[k]) \/ task'[k].right < First(task'[j])
    BY DEF PendingApart
  <2>4. CASE j \in {r, n} /\ k \in {r, n}
    BY <1>2, <1>3, <1>4, <1>5, <1>7, <1>13, <2>3, <2>4
  <2>5. CASE j \in {r, n} /\ k \notin {r, n}
    BY SMTT(30), <1>3, <1>4, <1>5, <1>7, <1>13, <2>1, <2>2, <2>3, <2>5
  <2>6. CASE j \notin {r, n} /\ k \in {r, n}
    BY SMTT(30), <1>3, <1>4, <1>5, <1>7, <1>13, <2>1, <2>2, <2>3, <2>6
  <2>7. CASE j \notin {r, n} /\ k \notin {r, n}
    BY <1>7, <2>3, <2>7 DEF IInv, PendingApart
  <2>8. QED
    BY <2>4, <2>5, <2>6, <2>7
<1>15. PivotsPlaced'
  <2>1. SUFFICES ASSUME NEW j \in Created', NEW k \in Created', task'[k].at \in {"spawning", "waiting"}
                 PROVE  task'[k].idx \notin Pending(task'[j])
    BY DEF PivotsPlaced
  <2>2. k # n
    BY <1>4, <1>7, <2>1
  <2>3. CASE k = r
    <3>1. task'[k].idx = f.idx
      BY <1>3, <1>7, <2>3
    <3>2. CASE j \in {r, n}
      BY <1>5, <1>7, <1>13, <3>1, <3>2
    <3>3. CASE j \notin {r, n}
      <4>1. task'[j] = task[j] /\ j \in Created /\ Bounded(task[j])
        BY <1>7, <3>3, FrameFacts
      <4>2. Unfinished(task[j]) => task[j].right < f.left \/ f.right < First(task[j])
        BY <1>2, <1>13, <3>3, <4>1 DEF IInv, PendingApart
      <4>3. task[j].right \in Int /\ First(task[j]) \in Int
        BY <4>1 DEF First, Bounded
      <4>4. f.idx \notin Pending(task[j])
        BY <1>5, <4>2, <4>3 DEF Pending
      <4>5. QED
        BY <3>1, <4>1, <4>4
    <3>4. QED
      BY <3>2, <3>3
  <2>4. CASE k # r
    <3>1. k \in Created /\ task'[k] = task[k] /\ task[k].at \in {"spawning", "waiting"} /\ task[k].idx \in Int
      BY <1>7, <2>1, <2>2, <2>4, FrameFacts DEF Bounded
    <3>2. task[k].idx \notin Pending(f)
      BY <1>2, <3>1 DEF IInv, PivotsPlaced
    <3>3. CASE j \in {r, n}
      BY SMTT(30), <1>5, <1>7, <1>13, <3>1, <3>2, <3>3
    <3>4. CASE j \notin {r, n}
      BY <1>7, <3>1, <3>4 DEF IInv, PivotsPlaced
    <3>5. QED
      BY <3>3, <3>4
  <2>5. QED
    BY <2>3, <2>4
<1>16. LoopInv'
  <2>1. \A k \in Created' : task'[k].at = "looping" => Passed(array', task'[k])
    BY <1>3, <1>4, <1>7, <1>10
  <2>2. QED
    BY <1>11, <2>1 DEF LoopInv, Passed
<1>17. OrderedButPending'
  <2>1. /\ \A p \in f.left .. (f.idx - 1) : text[array'[p]] < pivot
        /\ \A p \in (f.idx + 1) .. f.right : pivot <= text[array'[p]]
        /\ text[array'[f.idx]] = pivot
    <3>1. /\ \A p \in f.left .. (f.idx - 1) : text[array[p]] < pivot
          /\ \A p \in f.idx .. (f.right - 2) : pivot <= text[array[p]]
          /\ pivot <= text[array[f.right]]
      BY <1>2, <1>5 DEF Passed
    <3>2. \A p \in f.left .. (f.idx - 1) : text[array'[p]] < pivot
      <4>1. TAKE p \in f.left .. (f.idx - 1)
      <4>2. p \in Positions /\ p # f.idx /\ p # f.right - 1
        BY <1>5, <1>8
      <4>3. QED
        BY <1>9, <3>1, <4>2
    <3>3. \A p \in (f.idx + 1) .. f.right : pivot <= text[array'[p]]
      <4>1. TAKE p \in (f.idx + 1) .. f.right
      <4>2. p \in Positions /\ p # f.idx
        BY <1>5, <1>8
      <4>3. CASE p = f.right - 1
        <5>1. f.idx \in f.idx .. (f.right - 2)
          BY <1>5, <4>3
        <5>2. QED
          BY <1>9, <3>1, <4>3, <5>1
      <4>4. CASE p # f.right - 1
        <5>1. p = f.right \/ p \in f.idx .. (f.right - 2)
          BY <1>5, <4>4
        <5>2. QED
          BY <1>9, <3>1, <4>2, <4>4, <5>1
      <4>5. QED
        BY <4>3, <4>4
    <3>4. QED
      BY <1>9, <3>2, <3>3
  <2>2. SUFFICES ASSUME NEW p \in Positions, NEW q \in Positions, p < q
                 PROVE  \/ text[array'[p]] <= text[array'[q]]
                        \/ \E k \in Created' : p \in Pending(task'[k]) /\ q \in Pending(task'[k])
    BY <1>11, <1>12 DEF OrderedButPending
  <2>3. CASE ~(p \in f.left .. f.right /\ q \in f.left .. f.right)
    <3>1. \A k \in Created \ {r} : k \in Created' /\ task'[k] = task[k]
      BY <1>7
    <3>2. QED
      BY <1>10, <2>2, <2>3, <3>1
  <2>4. CASE p \in f.left .. f.right /\ q \in f.left .. f.right
    <3>1. r \in Created' /\ n \in Created' /\ p \in Int /\ q \in Int
      BY <1>2, <1>7, DataFacts
    <3>2. CASE q < f.idx
      BY <1>5, <1>7, <1>13, <2>2, <2>4, <3>1, <3>2
    <3>3. CASE p > f.idx
      BY SMTT(30), <1>5, <1>7, <1>13, <2>2, <2>4, <3>1, <3>3
    <3>4. CASE p <= f.idx /\ f.idx <= q
      <4>1. /\ array'[p] \in Positions /\ array'[q] \in Positions
            /\ text[array'[p]] \in Int /\ text[array'[q]] \in Int /\ pivot \in Int
        <5>1. array'[p] \in Positions /\ array'[q] \in Positions
          BY <1>10
        <5>2. QED
          BY <1>8, <5>1, DataFacts
      <4>2. text[array'[p]] <= pivot /\ pivot <= text[array'[q]]
        BY <1>5, <2>1, <2>4, <3>1, <3>4, <4>1
      <4>3. QED
        BY <4>1, <4>2
    <3>5. QED
      BY <1>5, <3>1, <3>2, <3>3, <3>4
  <2>5. QED
    BY <2>3, <2>4
<1>18. QED
  BY <1>7, <1>10, <1>12, <1>14, <1>15, <1>16, <1>17 DEF IInv

LEMMA SpawnSecondKeepsIInv == ASSUME NEW t \in Threads, IInv, SpawnSecond(t) PROVE IInv'
<1> DEFINE r == Running(t)
           f == task[r]
           g == [f EXCEPT !.at = "waiting"]
           c == SecondPart(f)
           n == 2 * r + 1
<1>1. /\ stack[t] # <<>> /\ f.at = "spawning" /\ UNCHANGED input /\ array' = array
      /\ Create(t, n, c, g)
  BY DEF SpawnSecond, Runs, input, CreateSecond
<1>2. r \in Created /\ TeamInv /\ Bounded(f) /\ f.at # "ended"
  BY <1>1, RunningIsCreated, FrameFacts DEF IInv
<1>3. /\ g \in Frame /\ g.at = "waiting" /\ g.left = f.left /\ g.right = f.right
      /\ g.i = f.i /\ g.idx = f.idx
  BY <1>2 DEF Bounded, Frame, Points, SchedulingPoints
<1>4. /\ c \in Frame /\ c.at = "deferred" /\ c.left = f.idx + 1 /\ c.right = f.right
      /\ c.i = c.left /\ c.idx = c.left
  BY <1>2 DEF Bounded, SecondPart, Task, Frame, Points, SchedulingPoints
<1>5. /\ f.left \in Int /\ f.right \in Int /\ f.idx \in Int /\ f.i \in Int
      /\ 0 <= f.left /\ f.left <= f.idx /\ f.idx <= f.i /\ f.i < f.right /\ f.right < count
  BY <1>1, <1>2 DEF Bounded
<1> HIDE DEF g, c
<1>6. Bounded(g) /\ Bounded(c)
  BY <1>3, <1>4, <1>5 DEF Bounded
<1>7. /\ TeamInv' /\ Created' = Created \cup {n} /\ n \notin Created /\ phase' = phase
      /\ task'[n] = c /\ task'[r] = g /\ \A j \in Created \ {r} : task'[j] = task[j]
  <2>1. Early(c.at)
    BY <1>4 DEF Early
  <2>2. QED
    BY <1>1, <1>2, <1>3, <2>1, CreateFacts
<1> HIDE DEF r, n
<1>8. count' = count /\ text' = text /\ Positions' = Positions /\ array' \in [Positions -> Positions]
  BY <1>1, DataFacts DEF input, Positions
<1>9. S!NoWordLost'
  BY <1>1, <1>8 DEF IInv, S!NoWordLost, S!Positions
<1>10. TypeOK'
  <2>1. \A k \in Created' : Bounded(task'[k])
    BY <1>6, <1>7, FrameFacts
  <2>2. QED
    BY <1>1, <1>8, <2>1, TypeAgain
\* The new task has to order what its parent had kept for it.
<1>11. /\ Unfinished(f) /\ First(f) = f.idx + 1 /\ Pending(f) = (f.idx + 1) .. f.right
       /\ ~Unfinished(g) /\ Pending(g) = {}
       /\ Unfinished(c) /\ First(c) = First(f) /\ Pending(c) = Pending(f) /\ c.right = f.right
  BY <1>1, <1>3, <1>4, UnfinishedFacts DEF First, Unfinished
<1>12. PendingApart'
  <2>1. SUFFICES ASSUME NEW j \in Created', NEW k \in Created', j # k,
                        Unfinished(task'[j]), Unfinished(task'[k])
                 PROVE  task'[j].right < First(task'[k]) \/ task'[k].right < First(task'[j])
    BY DEF PendingApart
  <2>2. j # r /\ k # r
    BY <1>7, <1>11, <2>1
  <2>3. CASE j = n
    BY <1>2, <1>7, <1>11, <2>1, <2>2, <2>3 DEF IInv, PendingApart
  <2>4. CASE k = n
    BY <1>2, <1>7, <1>11, <2>1, <2>2, <2>4 DEF IInv, PendingApart
  <2>5. CASE j # n /\ k # n
    BY <1>7, <2>1, <2>2, <2>5 DEF IInv, PendingApart
  <2>6. QED
    BY <2>3, <2>4, <2>5
<1>13. PivotsPlaced'
  <2>1. SUFFICES ASSUME NEW j \in Created', NEW k \in Created', task'[k].at \in {"spawning", "waiting"}
                 PROVE  task'[k].idx \notin Pending(task'[j])
    BY DEF PivotsPlaced
  <2>2. k \in Created /\ task[k].at \in {"spawning", "waiting"} /\ task'[k].idx = task[k].idx
    BY <1>1, <1>2, <1>3, <1>4, <1>7, <2>1
  <2>3. \A h \in Created : task[k].idx \notin Pending(task[h])
    BY <2>2 DEF IInv, PivotsPlaced
  <2>4. QED
    BY <1>2, <1>7, <1>11, <2>2, <2>3
<1>14. LoopInv'
  <2>1. \A k \in Created' : task'[k].at = "looping" => Passed(array', task'[k])
    BY <1>1, <1>3, <1>4, <1>7 DEF IInv, LoopInv
  <2>2. QED
    BY <1>8, <2>1 DEF LoopInv, Passed
<1>15. OrderedButPending'
  <2>1. phase # "called"
    BY <1>2, InRegion
  <2>2. \A k \in Created : \E j \in Created' : Pending(task'[j]) = Pending(task[k])
    BY <1>7, <1>11
  <2>3. QED
    BY <1>1, <1>8, <2>1, <2>2 DEF IInv, OrderedButPending
<1>16. QED
  BY <1>7, <1>9, <1>10, <1>12, <1>13, <1>14, <1>15 DEF IInv

\* A task that begins has the same range to order as before; one that ends after its
\* taskwait has none.
LEMMA RuntimeKeepsIInv == ASSUME NEW t \in Threads, IInv, Runtime(t) PROVE IInv'
<1>1. TeamInv /\ UNCHANGED input /\ array' = array
  BY DEF Runtime, IInv, input
<1>2. \A k \in Created : Bounded(task[k]) /\ "at" \in DOMAIN task[k]
  BY FrameFacts
<1>3. PICK k \in Created :
        /\ TeamInv' /\ Created' = Created /\ phase' = phase
        /\ \/ task[k].at = "waiting" /\ task'[k] = [task[k] EXCEPT !.at = "ended"]
           \/ task[k].at = "deferred" /\ task'[k] = [task[k] EXCEPT !.at = "working"]
        /\ \A j \in Created \ {k} : task'[j] = task[j]
  <2>1. CASE TaskWait(t)
    BY <1>1, <1>2, <2>1, TaskWaitFacts
  <2>2. CASE Begin(t)
    BY <1>1, <2>2, BeginFacts
  <2>3. QED
    BY <2>1, <2>2 DEF Runtime
<1>4. /\ task'[k] \in Frame
      /\ task'[k].left = task[k].left /\ task'[k].right = task[k].right
      /\ task'[k].i = task[k].i /\ task'[k].idx = task[k].idx
      /\ \/ task[k].at = "waiting" /\ task'[k].at = "ended"
         \/ task[k].at = "deferred" /\ task'[k].at = "working"
  BY <1>2, <1>3 DEF Bounded, Frame, Points, SchedulingPoints
<1>5. Bounded(task'[k])
  BY <1>2, <1>4 DEF Bounded
<1>6. count' = count /\ text' = text /\ Positions' = Positions /\ array' \in [Positions -> Positions]
  BY <1>1, DataFacts DEF input, Positions
<1>7. S!NoWordLost'
  BY <1>1, <1>6 DEF IInv, S!NoWordLost, S!Positions
<1>8. TypeOK'
  BY <1>1, <1>2, <1>3, <1>5, <1>6, TypeAgain
<1>9. \A j \in Created :
        /\ Unfinished(task'[j]) <=> Unfinished(task[j])
        /\ Unfinished(task[j]) => First(task'[j]) = First(task[j])
        /\ Pending(task'[j]) = Pending(task[j])
        /\ task'[j].right = task[j].right /\ task'[j].idx = task[j].idx
        /\ task'[j].at \in {"spawning", "waiting"} => task[j].at \in {"spawning", "waiting"}
  <2>1. /\ Unfinished(task'[k]) <=> Unfinished(task[k])
        /\ Unfinished(task[k]) => First(task'[k]) = First(task[k])
        /\ Pending(task'[k]) = Pending(task[k])
    <3>1. CASE task[k].at = "waiting" /\ task'[k].at = "ended"
      BY <3>1, UnfinishedFacts
    <3>2. CASE task[k].at = "deferred" /\ task'[k].at = "working"
      BY <1>4, <3>2, UnfinishedFacts
    <3>3. QED
      BY <1>4, <3>1, <3>2
  <2>2. QED
    BY <1>3, <1>4, <2>1
<1>10. PendingApart'
  BY <1>3, <1>9 DEF IInv, PendingApart
<1>11. PivotsPlaced'
  BY <1>3, <1>9 DEF IInv, PivotsPlaced
<1>12. LoopInv'
  <2>1. \A j \in Created : task'[j].at = "looping" => Passed(array', task'[j])
    BY <1>1, <1>3, <1>4 DEF IInv, LoopInv
  <2>2. QED
    BY <1>3, <1>6, <2>1 DEF LoopInv, Passed
<1>13. phase # "called" => OrderedButPending'
  BY <1>1, <1>3, <1>6, <1>9 DEF IInv, OrderedButPending
<1>14. QED
  BY <1>3, <1>7, <1>8, <1>10, <1>11, <1>12, <1>13 DEF IInv

LEMMA LeaveKeepsIInv == IInv /\ Leave => IInv'
<1> SUFFICES ASSUME IInv, Leave PROVE IInv'
  OBVIOUS
<1>1. TeamInv /\ UNCHANGED input /\ array' = array /\ LeaveRegion /\ phase = "region"
  BY DEF Leave, LeaveRegion, IInv, input
<1>2. TeamInv' /\ Created' = Created /\ task' = task
  BY <1>1, LeaveRegionFacts
<1>3. count' = count /\ text' = text /\ Positions' = Positions
  BY <1>1 DEF input, Positions
<1>4. S!NoWordLost'
  BY <1>1, <1>3 DEF IInv, S!NoWordLost, S!Positions
<1>5. TypeOK'
  BY <1>1, <1>2, DataFacts, FrameFacts, TypeAgain
<1>6. PendingApart' /\ PivotsPlaced'
  BY <1>2 DEF IInv, PendingApart, PivotsPlaced
<1>7. LoopInv' /\ OrderedButPending'
  BY <1>1, <1>2, <1>3 DEF IInv, LoopInv, Passed, OrderedButPending
<1>8. QED
  BY <1>2, <1>4, <1>5, <1>6, <1>7 DEF IInv

LEMMA StutterKeepsIInv == IInv /\ UNCHANGED vars => IInv'
<1> SUFFICES ASSUME IInv, UNCHANGED vars PROVE IInv'
  OBVIOUS
<1>1. TeamInv /\ UNCHANGED input /\ array' = array /\ UNCHANGED team
  BY DEF vars, IInv, input, team
<1>2. TeamInv' /\ Created' = Created
  BY <1>1, TeamStutters
<1>3. count' = count /\ text' = text /\ Positions' = Positions /\ task' = task /\ phase' = phase
  BY <1>1 DEF input, team, Positions
<1>4. S!NoWordLost'
  BY <1>1, <1>3 DEF IInv, S!NoWordLost, S!Positions
<1>5. TypeOK'
  BY <1>1, <1>2, <1>3, DataFacts, FrameFacts, TypeAgain
<1>6. PendingApart' /\ PivotsPlaced'
  BY <1>2, <1>3 DEF IInv, PendingApart, PivotsPlaced
<1>7. LoopInv' /\ (phase # "called" => OrderedButPending')
  BY <1>1, <1>2, <1>3 DEF IInv, LoopInv, Passed, OrderedButPending
<1>8. QED
  BY <1>2, <1>3, <1>4, <1>5, <1>6, <1>7 DEF IInv

(***************************************************************************)
(* The theorems.                                                           *)
(***************************************************************************)
LEMMA NextKeepsIInv == IInv /\ [Next]_vars => IInv'
BY CallKeepsIInv, SequentialKeepsIInv, PivotSelectKeepsIInv, CompareKeepsIInv,
   SpawnFirstKeepsIInv, SpawnSecondKeepsIInv, RuntimeKeepsIInv, LeaveKeepsIInv,
   StutterKeepsIInv
   DEF Next, Step, Returned

(* The invariant of the quicksort with tasks, whatever thread takes which task. *)
THEOREM TaskInvariance == Spec => []IInv
<1>1. IInv /\ [Next]_vars => IInv'
  BY NextKeepsIInv
<1>2. QED
  BY InitIInv, <1>1, PTL DEF Spec

(* No two tasks that may be at work at the same moment share a position: neither *)
(* seq_pivot_select nor quick_sort_recursive needs a lock.                       *)
THEOREM NoTaskRaces == Spec => []NoDataRace
<1>1. IInv => NoDataRace
  BY UnfinishedFacts DEF IInv, PendingApart, NoDataRace
<1>2. QED
  BY TaskInvariance, <1>1, PTL

(* A task's shared parameter outlives the task: its creator is still in taskwait. *)
THEOREM TaskParametersAlive == Spec => []SharedArrayAlive
<1>1. IInv => SharedArrayAlive
  BY SharedParameter DEF IInv
<1>2. QED
  BY TaskInvariance, <1>1, PTL

(* While a task waits, its pivot keeps the smaller words on its left and the     *)
(* larger ones on its right, whatever the tasks it created have done so far.     *)
THEOREM PartsStaySplit == Spec => []PartsSplit
<1>1. IInv => PartsSplit
  <2> SUFFICES ASSUME IInv, NEW k \in Created, task[k].at \in {"spawning", "waiting"}
               PROVE  LET pivot == text[array[task[k].idx]]
                      IN  /\ \A p \in task[k].left .. (task[k].idx - 1) : text[array[p]] <= pivot
                          /\ \A p \in (task[k].idx + 1) .. task[k].right : pivot <= text[array[p]]
    BY DEF PartsSplit
  <2> DEFINE x == task[k].idx
  <2>1. Bounded(task[k]) /\ x \in Positions
    BY FrameFacts, DataFacts DEF Bounded, Positions
  <2>2. \A p, q \in Positions : p < q /\ x \in {p, q} => text[array[p]] <= text[array[q]]
    <3>1. phase # "called"
      BY DEF IInv, TeamInv
    <3>2. \A j \in Created : x \notin Pending(task[j])
      BY DEF IInv, PivotsPlaced
    <3>3. QED
      BY <3>1, <3>2 DEF IInv, OrderedButPending
  <2>3. ASSUME NEW p \in task[k].left .. (x - 1) PROVE text[array[p]] <= text[array[x]]
    <3>1. p \in Positions /\ p < x
      BY <2>1, DataFacts DEF Bounded, Positions
    <3>2. QED
      BY <2>1, <2>2, <3>1
  <2>4. ASSUME NEW p \in (x + 1) .. task[k].right PROVE text[array[x]] <= text[array[p]]
    <3>1. p \in Positions /\ x < p
      BY <2>1, DataFacts DEF Bounded, Positions
    <3>2. QED
      BY <2>1, <2>2, <3>1
  <2>5. QED
    BY <2>3, <2>4
<1>2. QED
  BY TaskInvariance, <1>1, PTL

(* quick_sort_words_parallel implements the sort that WordList is written against. *)
THEOREM TasksImplementSorting == Spec => Contract
<1>1. Init => S!Init
  BY DEF Init, InputInit, TeamInit, S!Init, Positions, S!Positions
<1>2. IInv /\ [Next]_vars => [S!Next]_<<count, text, array, phase = "returned">>
  <2> SUFFICES ASSUME IInv, [Next]_vars,
                      ~ UNCHANGED <<count, text, array, phase = "returned">>
               PROVE  S!Next
    OBVIOUS
  <2>1. IInv'
    BY NextKeepsIInv
  <2>2. ASSUME NEW t \in Threads, Step(t) PROVE S!Next
    <3>1. count' = count /\ text' = text /\ phase' = phase
      BY <2>2 DEF Step, Sequential, EndTask, PivotSelect, GoOn, Compare, SpawnFirst, CreateFirst,
         SpawnSecond, CreateSecond, Create, Runtime, TaskWait, Begin, input
    <3>2. phase # "returned"
      <4>1. CASE Begin(t)
        BY <4>1 DEF Begin
      <4>2. CASE ~Begin(t)
        <5>1. stack[t] # <<>> /\ task[Running(t)].at # "ended"
          BY <2>2, <4>2 DEF Step, Sequential, PivotSelect, Compare, SpawnFirst, SpawnSecond,
             Runtime, TaskWait, Runs
        <5>2. Running(t) \in Created /\ TeamInv
          BY <5>1, RunningIsCreated DEF IInv
        <5>3. QED
          BY <5>1, <5>2, InRegion
      <4>3. QED
        BY <4>1, <4>2
    <3>3. array' \in [Positions -> Positions] /\ S!NoWordLost'
      BY <2>1, <3>1 DEF IInv, TypeOK, Positions
    <3>4. S!Rearrange
      BY <3>1, <3>2, <3>3 DEF S!Rearrange, S!Positions, Positions
    <3>5. QED
      BY <3>4 DEF S!Next
  <2>3. ASSUME quick_sort_words_parallel \/ Leave PROVE S!Next
    <3>1. count' = count /\ text' = text /\ array' = array /\ phase # "returned"
      BY <2>3 DEF quick_sort_words_parallel, Leave, LeaveRegion, input
    <3>2. phase' = "returned"
      <4>1. CASE phase' # "returned"
        BY <3>1, <4>1
      <4>2. QED
        BY <4>1
    <3>3. S!Sorted
      <4>1. \A k \in Created' : task'[k].at = "ended"
        BY <2>1, <3>2 DEF IInv, TeamInv
      <4>2. \A k \in Created' : Pending(task'[k]) = {}
        BY <4>1 DEF Pending, Unfinished
      <4>3. OrderedButPending'
        BY <2>1, <3>2 DEF IInv
      <4>4. \A p, q \in Positions : p < q => text[array[p]] <= text[array[q]]
        BY <3>1, <4>2, <4>3 DEF OrderedButPending, Positions
      <4>5. QED
        BY <4>4 DEF S!Sorted, S!Positions, Positions
    <3>4. S!Return
      BY <3>1, <3>2, <3>3 DEF S!Return
    <3>5. QED
      BY <3>4 DEF S!Next
  <2>4. ~UNCHANGED vars
    BY DEF vars, input, team
  <2>5. QED
    BY <2>2, <2>3, <2>4 DEF Next, Returned
<1>3. QED
  BY TaskInvariance, <1>1, <1>2, PTL DEF Spec, Contract, S!Spec
=============================================================================
