--------------------------- MODULE OmpTasksProofs ----------------------------
(***************************************************************************)
(* Lemmas about OmpTasks for the proofs about the sorts that use it: every *)
(* thing a thread may do with its tasks keeps TeamInv, and what a task     *)
(* does to its own range leaves the other words in order.                  *)
(***************************************************************************)
EXTENDS OmpTasks, SequenceTheorems, TLAPS

\* Where a task may be that has created no task yet.
Early(at) == at \notin {"spawning", "waiting", "ended"}

(***************************************************************************)
(* The task a thread runs.                                                 *)
(***************************************************************************)
LEMMA RunningIsCreated ==
  ASSUME TeamInv, NEW t \in Threads, stack[t] # <<>>
  PROVE  /\ Running(t) \in Created
         /\ Running(t) \in Nat \ {0}
         /\ Len(stack[t]) \in Nat \ {0}
         /\ stack[t] \in Seq(Created)
<1>1. stack[t] \in Seq(Created) /\ Created \subseteq Nat \ {0}
  BY DEF TeamInv
<1>2. Len(stack[t]) \in Nat \ {0}
  BY <1>1, EmptySeq
<1>3. Len(stack[t]) \in 1 .. Len(stack[t])
  BY <1>2
<1>4. Running(t) \in Created
  BY <1>1, <1>3, ElementOfSeq DEF Running
<1>5. QED
  BY <1>1, <1>2, <1>4

\* The tasks that a task has not created yet are not there, and the two that it
\* creates are different from those any other task creates.
LEMMA ChildrenAreNew ==
  ASSUME TeamInv, NEW k \in Created
  PROVE  /\ k \in Nat \ {0}
         /\ 2 * k \in Nat \ {0} /\ 2 * k + 1 \in Nat \ {0}
         /\ Parent(2 * k) = k /\ Parent(2 * k + 1) = k
         /\ 2 * k # 1 /\ 2 * k + 1 # 1 /\ 2 * k # k /\ 2 * k + 1 # k
         /\ \A j \in Created : j # k =>
              /\ 2 * j # 2 * k /\ 2 * j # 2 * k + 1
              /\ 2 * j + 1 # 2 * k /\ 2 * j + 1 # 2 * k + 1
         /\ \A c \in {2 * k, 2 * k + 1} :
              c \notin Created => 2 * c \notin Created /\ 2 * c + 1 \notin Created
<1>1. k \in Nat \ {0} /\ Created \subseteq Nat \ {0}
  BY DEF TeamInv
<1>2. \A c \in Nat \ {0} : /\ 2 * c \in Nat \ {0, 1} /\ 2 * c + 1 \in Nat \ {0, 1}
                           /\ Parent(2 * c) = c /\ Parent(2 * c + 1) = c
  BY DEF Parent
<1>3. ASSUME NEW c \in {2 * k, 2 * k + 1}, c \notin Created
      PROVE  2 * c \notin Created /\ 2 * c + 1 \notin Created
  <2>1. c \in Nat \ {0}
    BY <1>1
  <2>2. QED
    BY <1>2, <1>3, <2>1 DEF TeamInv
<1>4. QED
  BY <1>1, <1>2, <1>3

(***************************************************************************)
(* Whatever a thread does, TeamInv holds again.                            *)
(***************************************************************************)
LEMMA TeamInitially == TeamInit => TeamInv /\ Created = {}
<1> SUFFICES ASSUME TeamInit PROVE TeamInv /\ Created = {}
  OBVIOUS
<1>1. Created = {}
  <2>1. task \in Seq({}) /\ Len(task) = 0
    BY EmptySeq DEF TeamInit
  <2>2. DOMAIN task = 1 .. 0
    BY <2>1, LenProperties
  <2>3. QED
    BY <2>2 DEF Created
<1>2. stack \in [Threads -> Seq(Created)]
  BY EmptySeq DEF TeamInit
<1>3. QED
  BY <1>1, <1>2 DEF TeamInit, TeamInv

LEMMA TeamStutters ==
  ASSUME TeamInv, UNCHANGED team
  PROVE  TeamInv' /\ Created' = Created
<1>1. phase' = phase /\ task' = task /\ stack' = stack
  BY DEF team
<1>2. QED
  BY <1>1 DEF TeamInv, Created, ChildrenOf, Childless

LEMMA ReturnAtOnce ==
  ASSUME TeamInv, phase = "called", phase' = "returned", UNCHANGED <<task, stack>>
  PROVE  TeamInv' /\ Created = {} /\ Created' = {}
BY DEF TeamInv, Created, ChildrenOf, Childless

LEMMA EnterRegionFacts ==
  ASSUME TeamInv, phase = "called", NEW root, EnterRegion(root), Early(root.at)
  PROVE  TeamInv' /\ Created' = {1} /\ task'[1] = root /\ phase' = "region"
<1>1. phase' = "region" /\ task' = [k \in {1} |-> root] /\ Created = {}
  BY DEF EnterRegion, TeamInv
<1>2. Created' = {1} /\ task'[1] = root
  BY <1>1 DEF Created
<1>3. PICK t \in Threads : stack' = [stack EXCEPT ![t] = <<1>>]
  BY DEF EnterRegion
<1>4. stack' \in [Threads -> Seq(Created')]
  <2>1. stack \in [Threads -> Seq({})]
    BY <1>1 DEF TeamInv
  <2>2. \A s \in Seq({}) : s \in Seq({1})
    BY SeqMonotonic
  <2>3. <<1>> \in Seq({1})
    OBVIOUS
  <2>4. QED
    BY <1>2, <1>3, <2>1, <2>2, <2>3
<1>5. \A k \in Created' : ChildrenOf(k)'
  <2>1. Created' = {1} /\ 2 * 1 \notin Created' /\ 2 * 1 + 1 \notin Created'
    BY <1>2
  <2>2. Childless(1)' /\ Early(task'[1].at)
    BY <1>2, <2>1 DEF Childless
  <2>3. ChildrenOf(1)'
    BY <2>2 DEF ChildrenOf, Early
  <2>4. QED
    BY <1>2, <2>3
<1>6. QED
  BY <1>1, <1>2, <1>4, <1>5 DEF TeamInv

LEMMA LeaveRegionFacts ==
  ASSUME TeamInv, LeaveRegion
  PROVE  /\ TeamInv' /\ Created' = Created /\ task' = task
         /\ \A k \in Created : task[k].at = "ended"
BY DEF TeamInv, LeaveRegion, AllDone, Created, ChildrenOf, Childless

\* A task that has not ended belongs to a sort that goes on.
LEMMA InRegion ==
  ASSUME TeamInv, NEW k \in Created, task[k].at # "ended"
  PROVE  phase = "region"
BY DEF TeamInv

LEMMA GoOnFacts ==
  ASSUME TeamInv, NEW t \in Threads, stack[t] # <<>>, NEW f, GoOn(t, f),
         Early(task[Running(t)].at), Early(f.at)
  PROVE  /\ TeamInv' /\ Created' = Created /\ phase' = phase
         /\ task'[Running(t)] = f
         /\ \A k \in Created \ {Running(t)} : task'[k] = task[k]
<1> DEFINE r == Running(t)
<1>1. r \in Created /\ task[r].at # "ended"
  BY RunningIsCreated DEF Early
<1>2. task' = [task EXCEPT ![r] = f] /\ phase' = phase /\ stack' = stack
  BY DEF GoOn
<1> HIDE DEF r
<1>3. Created' = Created /\ task'[r] = f /\ \A k \in Created \ {r} : task'[k] = task[k]
  BY <1>1, <1>2 DEF Created
<1>4. phase = "region"
  BY <1>1, InRegion
<1>5. \A k \in Created : ChildrenOf(k)'
  <2>1. TAKE k \in Created
  <2>2. ChildrenOf(k) /\ ChildrenOf(r)
    BY <1>1 DEF TeamInv
  <2>3. \A c \in Created : task[c].at = "ended" => task'[c].at = "ended"
    BY <1>1, <1>3
  <2>4. CASE k = r
    BY <1>3, <2>2, <2>4 DEF ChildrenOf, Childless, Early, r
  <2>5. CASE k # r
    BY <1>3, <2>2, <2>3, <2>5 DEF ChildrenOf, Childless
  <2>6. QED
    BY <2>4, <2>5
<1>6. TeamInv'
  BY <1>2, <1>3, <1>4, <1>5 DEF TeamInv, Parent
<1>7. QED
  BY <1>2, <1>3, <1>6 DEF r

LEMMA CreateFacts ==
  ASSUME TeamInv, NEW t \in Threads, stack[t] # <<>>, NEW k, NEW child, NEW f,
         Create(t, k, child, f), Early(child.at), task[Running(t)].at # "ended",
         \/ k = 2 * Running(t) /\ Early(task[Running(t)].at) /\ f.at = "spawning"
         \/ k = 2 * Running(t) + 1 /\ task[Running(t)].at = "spawning" /\ f.at = "waiting"
  PROVE  /\ TeamInv' /\ Created' = Created \cup {k} /\ phase' = phase
         /\ k \notin Created /\ task'[k] = child
         /\ task'[Running(t)] = f
         /\ \A j \in Created \ {Running(t)} : task'[j] = task[j]
<1> DEFINE r == Running(t)
<1>1. r \in Created /\ r \in Nat \ {0} /\ Created \subseteq Nat \ {0}
  BY RunningIsCreated DEF TeamInv
<1>2. /\ task' = [j \in Created \cup {k} |-> IF j = k THEN child ELSE IF j = r THEN f ELSE task[j]]
      /\ phase' = phase /\ stack' = stack
  BY DEF Create
<1>3. \/ k = 2 * r /\ Early(task[r].at) /\ f.at = "spawning"
      \/ k = 2 * r + 1 /\ task[r].at = "spawning" /\ f.at = "waiting"
  OBVIOUS
<1>4. task[r].at # "ended"
  OBVIOUS
<1> HIDE DEF r
<1>5. ChildrenOf(r)
  BY <1>1 DEF TeamInv
<1>6. k \notin Created
  BY <1>3, <1>5 DEF ChildrenOf, Childless, Early
<1>7. /\ k \in {2 * r, 2 * r + 1} /\ k \in Nat \ {0, 1} /\ Parent(k) = r
      /\ 2 * k \notin Created /\ 2 * k + 1 \notin Created
  BY <1>1, <1>3, <1>6, ChildrenAreNew
<1>8. /\ Created' = Created \cup {k} /\ task'[k] = child
      /\ task'[r] = f /\ \A j \in Created \ {r} : task'[j] = task[j]
  BY <1>1, <1>2, <1>6 DEF Created
<1>9. \A j \in Created : j # r => 2 * j # k /\ 2 * j + 1 # k
  BY <1>1, <1>7, ChildrenAreNew
<1>10. \A c \in Created : task[c].at = "ended" => task'[c].at = "ended"
  BY <1>4, <1>8
<1>11. ASSUME NEW j \in Created' PROVE ChildrenOf(j)'
  <2>1. CASE j = k
    <3>1. 2 * k # k /\ 2 * k + 1 # k
      BY <1>7
    <3>2. Childless(j)'
      BY <1>7, <1>8, <2>1, <3>1 DEF Childless
    <3>3. QED
      BY <1>8, <2>1, <3>2 DEF ChildrenOf, Early
  <2>2. CASE j = r /\ k = 2 * r
    <3>1. 2 * r + 1 \notin Created' /\ 2 * r \in Created'
      <4>1. 2 * r + 1 \notin Created
        BY <1>3, <1>5, <2>2, <1>1 DEF ChildrenOf, Childless, Early
      <4>2. 2 * r + 1 # k
        BY <1>1, <2>2
      <4>3. QED
        BY <1>8, <2>2, <4>1, <4>2
    <3>2. f.at = "spawning"
      BY <1>1, <1>3, <2>2
    <3>3. QED
      BY <1>8, <2>2, <3>1, <3>2 DEF ChildrenOf
  <2>3. CASE j = r /\ k = 2 * r + 1
    <3>1. task[r].at = "spawning" /\ f.at = "waiting"
      BY <1>1, <1>3, <2>3
    <3>2. 2 * r \in Created' /\ 2 * r + 1 \in Created'
      BY <1>5, <1>8, <2>3, <3>1 DEF ChildrenOf
    <3>3. QED
      BY <1>8, <2>3, <3>1, <3>2 DEF ChildrenOf
  <2>4. CASE j \in Created /\ j # r
    <3>1. ChildrenOf(j) /\ task'[j] = task[j]
      BY <1>8, <2>4 DEF TeamInv
    <3>2. (2 * j \in Created' <=> 2 * j \in Created) /\ (2 * j + 1 \in Created' <=> 2 * j + 1 \in Created)
      BY <1>8, <1>9, <2>4
    <3>3. QED
      BY <1>10, <3>1, <3>2 DEF ChildrenOf, Childless
  <2>5. QED
    BY <1>7, <1>8, <2>1, <2>2, <2>3, <2>4
<1>12. phase = "region"
  BY <1>1, <1>4, InRegion
<1>13. \A j \in Created' \ {1} : Parent(j)' \in Created'
  BY <1>1, <1>7, <1>8 DEF TeamInv, Parent
<1>14. stack' \in [Threads -> Seq(Created')]
  <2>1. \A s \in Seq(Created) : s \in Seq(Created')
    BY <1>8, SeqMonotonic
  <2>2. QED
    BY <1>2, <2>1 DEF TeamInv
<1>15. TeamInv'
  BY <1>1, <1>2, <1>7, <1>8, <1>11, <1>12, <1>13, <1>14 DEF TeamInv
<1>16. QED
  BY <1>2, <1>6, <1>8, <1>15 DEF r

\* A task ends that has created no tasks or waited for those it created.
LEMMA EndTaskFacts ==
  ASSUME TeamInv, NEW t \in Threads, stack[t] # <<>>, EndTask(t),
         "at" \in DOMAIN task[Running(t)],
         \/ Early(task[Running(t)].at)
         \/ task[Running(t)].at = "waiting" /\ ChildrenEnded(Running(t))
  PROVE  /\ TeamInv' /\ Created' = Created /\ phase' = phase
         /\ task'[Running(t)].at = "ended"
         /\ task'[Running(t)] = [task[Running(t)] EXCEPT !.at = "ended"]
         /\ \A k \in Created \ {Running(t)} : task'[k] = task[k]
<1> DEFINE r == Running(t)
<1>1. r \in Created /\ stack[t] \in Seq(Created) /\ Len(stack[t]) \in Nat
  BY RunningIsCreated
<1>2. /\ task' = [task EXCEPT ![r] = [task[r] EXCEPT !.at = "ended"]]
      /\ stack' = [stack EXCEPT ![t] = SubSeq(stack[t], 1, Len(stack[t]) - 1)]
      /\ phase' = phase /\ "at" \in DOMAIN task[r]
  BY DEF EndTask
<1>3. \/ Early(task[r].at)
      \/ task[r].at = "waiting" /\ ChildrenEnded(r)
  OBVIOUS
<1> HIDE DEF r
<1>4. /\ Created' = Created /\ task'[r].at = "ended"
      /\ task'[r] = [task[r] EXCEPT !.at = "ended"]
      /\ \A k \in Created \ {r} : task'[k] = task[k]
  BY <1>1, <1>2 DEF Created
<1>5. \A c \in Created : task[c].at = "ended" => task'[c].at = "ended"
  BY <1>4
<1>6. task[r].at # "ended"
  BY <1>3 DEF Early
<1>7. phase = "region"
  BY <1>1, <1>6, InRegion
<1>8. \A k \in Created : ChildrenOf(k)'
  <2>1. TAKE k \in Created
  <2>2. ChildrenOf(k)
    BY DEF TeamInv
  <2>3. CASE k # r
    BY <1>4, <1>5, <2>2, <2>3 DEF ChildrenOf, Childless
  <2>4. CASE k = r
    <3>1. \A c \in {2 * r, 2 * r + 1} : c \in Created => task[c].at = "ended"
      BY <1>3, <2>2, <2>4 DEF ChildrenOf, Childless, ChildrenEnded, Early
    <3>2. task'[r].at = "ended"
      BY <1>4
    <3>3. QED
      BY <1>4, <1>5, <2>4, <3>1, <3>2 DEF ChildrenOf
  <2>5. QED
    BY <2>3, <2>4
<1>9. stack' \in [Threads -> Seq(Created)]
  <2>1. \A n \in 1 .. (Len(stack[t]) - 1) : stack[t][n] \in Created
    BY <1>1, ElementOfSeq
  <2>2. SubSeq(stack[t], 1, Len(stack[t]) - 1) \in Seq(Created)
    BY <1>1, <2>1, SubSeqProperties
  <2>3. QED
    BY <1>2, <2>2 DEF TeamInv
<1>10. TeamInv'
  BY <1>2, <1>4, <1>7, <1>8, <1>9 DEF TeamInv, Parent
<1>11. QED
  BY <1>2, <1>4, <1>10 DEF r

LEMMA BeginFacts ==
  ASSUME TeamInv, NEW t \in Threads, Begin(t)
  PROVE  \E k \in Created :
           /\ TeamInv' /\ Created' = Created /\ phase' = phase
           /\ task[k].at = "deferred"
           /\ task'[k] = [task[k] EXCEPT !.at = "working"]
           /\ \A j \in Created \ {k} : task'[j] = task[j]
<1>1. PICK k \in Created :
        /\ task[k].at = "deferred"
        /\ task' = [task EXCEPT ![k] = [task[k] EXCEPT !.at = "working"]]
        /\ stack' = [stack EXCEPT ![t] = Append(stack[t], k)]
  BY DEF Begin
<1>2. phase' = phase /\ phase = "region"
  BY DEF Begin
<1>3. /\ Created' = Created /\ task'[k] = [task[k] EXCEPT !.at = "working"]
      /\ \A j \in Created \ {k} : task'[j] = task[j]
  BY <1>1 DEF Created
<1>4. \A j \in Created : ChildrenOf(j)'
  <2>1. TAKE j \in Created
  <2>2. ChildrenOf(j)
    BY DEF TeamInv
  <2>3. \A c \in Created : task[c].at = "ended" => task'[c].at = "ended"
    BY <1>1, <1>3
  <2>4. CASE j = k
    <3>1. Childless(k) /\ task'[k].at \notin {"spawning", "waiting", "ended"}
      BY <1>1, <1>3, <2>2, <2>4 DEF ChildrenOf
    <3>2. QED
      BY <1>3, <2>4, <3>1 DEF ChildrenOf, Childless
  <2>5. CASE j # k
    BY <1>3, <2>2, <2>3, <2>5 DEF ChildrenOf, Childless
  <2>6. QED
    BY <2>4, <2>5
<1>5. stack' \in [Threads -> Seq(Created)]
  BY <1>1, AppendProperties DEF TeamInv
<1>6. TeamInv'
  BY <1>2, <1>3, <1>4, <1>5 DEF TeamInv, Parent
<1>7. QED
  BY <1>1, <1>2, <1>3, <1>6

LEMMA TaskWaitFacts ==
  ASSUME TeamInv, NEW t \in Threads, TaskWait(t),
         \A k \in Created : "at" \in DOMAIN task[k]
  PROVE  \E k \in Created :
           /\ TeamInv' /\ Created' = Created /\ phase' = phase
           /\ task[k].at = "waiting"
           /\ task'[k] = [task[k] EXCEPT !.at = "ended"]
           /\ \A c \in {2 * k, 2 * k + 1} : c \in Created /\ task[c].at = "ended"
           /\ \A j \in Created \ {k} : task'[j] = task[j]
<1>1. stack[t] # <<>> /\ task[Running(t)].at = "waiting" /\ ChildrenEnded(Running(t)) /\ EndTask(t)
  BY DEF TaskWait, Runs
<1>2. Running(t) \in Created /\ ChildrenOf(Running(t))
  BY <1>1, RunningIsCreated DEF TeamInv
<1>3. \A c \in {2 * Running(t), 2 * Running(t) + 1} : c \in Created /\ task[c].at = "ended"
  BY <1>1, <1>2 DEF ChildrenOf, ChildrenEnded
<1>4. QED
  BY <1>1, <1>2, <1>3, EndTaskFacts

\* A task that has not ended is still waited for by the task that created it.
LEMMA SharedParameter == TeamInv => SharedArrayAlive
<1> SUFFICES ASSUME TeamInv, NEW k \in Created \ {1}, task[k].at # "ended"
             PROVE  task[Parent(k)].at \in {"spawning", "waiting"}
  BY DEF SharedArrayAlive
<1> DEFINE p == Parent(k)
<1>1. p \in Created /\ k \in Nat \ {0}
  BY DEF TeamInv
<1>2. k \in {2 * p, 2 * p + 1}
  BY <1>1 DEF Parent
<1>3. ChildrenOf(p)
  BY <1>1 DEF TeamInv
<1>4. task[p].at \notin {"spawning", "waiting", "ended"} => k \notin Created
  BY <1>2, <1>3 DEF ChildrenOf, Childless
<1>5. task[p].at # "ended"
  BY <1>2, <1>3 DEF ChildrenOf
<1>6. QED
  BY <1>4, <1>5

(***************************************************************************)
(* What a task does to the array: it rearranges the pointers of one range. *)
(***************************************************************************)
Kept(b) == \A w \in Positions : \E p \in Positions : b[p] = w

Rearranged(a, b, lo, hi) ==
  /\ b \in [Positions -> Positions]
  /\ \A p \in Positions : p \notin lo .. hi => b[p] = a[p]
  /\ \A p \in Positions : p \in lo .. hi => \E r \in Positions : r \in lo .. hi /\ b[p] = a[r]
  /\ Kept(a) => Kept(b)

LEMMA SwapRearranges ==
  ASSUME NEW a \in [Positions -> Positions], NEW lo \in Int, NEW hi \in Int,
         NEW x \in Positions, NEW y \in Positions, x \in lo .. hi, y \in lo .. hi,
         NEW b, b = swap_words(a, x, y)
  PROVE  /\ Rearranged(a, b, lo, hi)
         /\ b[x] = a[y] /\ b[y] = a[x]
         /\ \A p \in Positions : p # x /\ p # y => b[p] = a[p]
<1>1. /\ b \in [Positions -> Positions]
      /\ b[x] = a[y] /\ b[y] = a[x]
      /\ \A p \in Positions : p # x /\ p # y => b[p] = a[p]
  BY DEF swap_words
<1>2. \A p \in Positions : p \in lo .. hi => \E r \in Positions : r \in lo .. hi /\ b[p] = a[r]
  BY <1>1
<1>3. ASSUME Kept(a) PROVE Kept(b)
  <2>1. SUFFICES ASSUME NEW w \in Positions PROVE \E p \in Positions : b[p] = w
    BY DEF Kept
  <2>2. PICK q \in Positions : a[q] = w
    BY <1>3 DEF Kept
  <2>3. QED
    BY <1>1, <2>2
<1>4. \A p \in Positions : p \notin lo .. hi => b[p] = a[p]
  BY <1>1
<1>5. QED
  BY <1>1, <1>2, <1>3, <1>4 DEF Rearranged

LEMMA NothingRearranged ==
  ASSUME NEW a \in [Positions -> Positions], NEW lo, NEW hi
  PROVE  Rearranged(a, a, lo, hi)
BY DEF Rearranged

LEMMA RearrangedTwice ==
  ASSUME NEW a, NEW b, NEW c, NEW lo, NEW hi,
         Rearranged(a, b, lo, hi), Rearranged(b, c, lo, hi)
  PROVE  Rearranged(a, c, lo, hi)
<1>1. /\ c \in [Positions -> Positions]
      /\ \A p \in Positions : p \notin lo .. hi => c[p] = a[p]
      /\ Kept(a) => Kept(c)
  BY DEF Rearranged
<1>2. ASSUME NEW p \in Positions, p \in lo .. hi
      PROVE  \E r \in Positions : r \in lo .. hi /\ c[p] = a[r]
  <2>1. PICK q \in Positions : q \in lo .. hi /\ c[p] = b[q]
    BY <1>2 DEF Rearranged
  <2>2. PICK r \in Positions : r \in lo .. hi /\ b[q] = a[r]
    BY <2>1 DEF Rearranged
  <2>3. QED
    BY <2>1, <2>2
<1>3. QED
  BY <1>1, <1>2 DEF Rearranged

\* quick_sort_recursive rearranges the words of its range and leaves them in order.
LEMMA QuickSortedFacts ==
  ASSUME count \in Nat, NEW a \in [Positions -> Positions],
         NEW left \in Int, NEW right \in Int, 0 <= left, right < count,
         NEW b \in QuickSorted(a, left, right)
  PROVE  /\ Rearranged(a, b, left, right)
         /\ \A p, q \in left .. right : p < q => text[b[p]] <= text[b[q]]
<1> DEFINE R == left .. right
<1>1. PICK f \in Bijection(R, R) :
        b = [p \in Positions |-> IF p \in R THEN a[f[p]] ELSE a[p]]
  BY DEF QuickSorted
<1>2. \A p, q \in R : p < q => text[b[p]] <= text[b[q]]
  BY DEF QuickSorted
<1>3. f \in [R -> R] /\ \A q \in R : \E p \in R : f[p] = q
  BY <1>1 DEF Bijection, Injection, Surjection
<1>4. R \subseteq Positions
  BY DEF Positions
<1>5. b \in [Positions -> Positions]
  BY <1>1, <1>3, <1>4
<1>6. /\ \A p \in Positions : p \notin R => b[p] = a[p]
      /\ \A p \in R : b[p] = a[f[p]] /\ f[p] \in R
  BY <1>1, <1>3, <1>4
<1>7. ASSUME Kept(a) PROVE Kept(b)
  <2>1. SUFFICES ASSUME NEW w \in Positions PROVE \E p \in Positions : b[p] = w
    BY DEF Kept
  <2>2. PICK q \in Positions : a[q] = w
    BY <1>7 DEF Kept
  <2>3. CASE q \in R
    <3>1. PICK p \in R : f[p] = q
      BY <1>3, <2>3
    <3>2. QED
      BY <1>4, <1>6, <2>2, <3>1
  <2>4. CASE q \notin R
    BY <1>6, <2>2, <2>4
  <2>5. QED
    BY <2>3, <2>4
<1>8. \A p \in Positions : p \in R => \E r \in Positions : r \in R /\ b[p] = a[r]
  BY <1>4, <1>6
<1>9. Rearranged(a, b, left, right)
  <2> HIDE DEF R
  <2>1. \A p \in Positions : p \notin R => b[p] = a[p]
    BY <1>6
  <2>2. QED
    BY <1>5, <1>7, <1>8, <2>1 DEF Rearranged, R
<1>10. QED
  BY <1>2, <1>9

\* Two words of which one at least is outside lo .. hi are in order, or in what one
\* of the others, P[k], has to put in order.
OrderedOutside(a, lo, hi, K, P) ==
  \A p, q \in Positions :
    p < q /\ ~(p \in lo .. hi /\ q \in lo .. hi) =>
      text[a[p]] <= text[a[q]] \/ \E k \in K : p \in P[k] /\ q \in P[k]

ApartFrom(lo, hi, K, P) == \A k \in K : \A p \in lo .. hi : p \notin P[k]

TextIsInt == \A p \in Positions : text[p] \in Int

LEMMA OthersStayOrdered ==
  ASSUME count \in Nat, TextIsInt,
         NEW a \in [Positions -> Positions], NEW b, NEW lo \in Int, NEW hi \in Int,
         NEW K, NEW P, Rearranged(a, b, lo, hi), ApartFrom(lo, hi, K, P),
         OrderedOutside(a, lo, hi, K, P)
  PROVE  OrderedOutside(b, lo, hi, K, P)
<1> DEFINE Together(p, q) == \E k \in K : p \in P[k] /\ q \in P[k]
<1>1. /\ \A p \in Positions : p \in Int
      /\ \A p \in Positions : p \notin lo .. hi => b[p] = a[p]
      /\ \A p \in Positions : p \in lo .. hi => \E r \in Positions : r \in lo .. hi /\ b[p] = a[r]
      /\ \A p \in Positions : a[p] \in Positions /\ text[a[p]] \in Int
  <2>1. \A p \in Positions : a[p] \in Positions /\ text[a[p]] \in Int
    BY DEF TextIsInt
  <2>2. \A p \in Positions : p \in Int
    BY DEF Positions
  <2>3. QED
    BY <2>1, <2>2 DEF Rearranged
<1>2. \A p, q \in Positions :
        p < q /\ ~(p \in lo .. hi /\ q \in lo .. hi) => text[a[p]] <= text[a[q]] \/ Together(p, q)
  BY DEF OrderedOutside
<1>3. \A p, q : p \in lo .. hi \/ q \in lo .. hi => ~Together(p, q)
  BY DEF ApartFrom
<1> HIDE DEF Together
<1>4. ASSUME NEW p \in Positions, NEW q \in Positions, p < q,
             ~(p \in lo .. hi /\ q \in lo .. hi)
      PROVE  text[b[p]] <= text[b[q]] \/ Together(p, q)
  <2>1. CASE p \in lo .. hi
    <3>1. PICK r \in Positions : r \in lo .. hi /\ b[p] = a[r]
      BY <1>1, <2>1
    <3>2. r < q /\ q \notin lo .. hi
      BY <1>1, <1>4, <2>1, <3>1
    <3>3. text[a[r]] <= text[a[q]]
      BY <1>2, <1>3, <3>1, <3>2
    <3>4. QED
      BY <1>1, <3>1, <3>2, <3>3
  <2>2. CASE q \in lo .. hi
    <3>1. PICK r \in Positions : r \in lo .. hi /\ b[q] = a[r]
      BY <1>1, <2>2
    <3>2. p < r /\ p \notin lo .. hi
      BY <1>1, <1>4, <2>2, <3>1
    <3>3. text[a[p]] <= text[a[r]]
      BY <1>2, <1>3, <3>1, <3>2
    <3>4. QED
      BY <1>1, <3>1, <3>2, <3>3
  <2>3. CASE p \notin lo .. hi /\ q \notin lo .. hi
    BY <1>1, <1>2, <1>4, <2>3
  <2>4. QED
    BY <2>1, <2>2, <2>3
<1>5. QED
  BY <1>4 DEF Together, OrderedOutside
=============================================================================
