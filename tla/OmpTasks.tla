------------------------------- MODULE OmpTasks -------------------------------
(***************************************************************************)
(* OpenMP as the two parallel sorts use it: a parallel region in which one *)
(* thread runs the body of a single nowait construct, tasks that create    *)
(* two tasks each and wait for both, and the barrier that ends the region. *)
(*                                                                         *)
(* Task 1 is the body of the single construct, task k creates the tasks 2k *)
(* and 2k + 1.  A task is tied to the thread that begins it.  Threads meet *)
(* only in the runtime, so a step is what a thread does between two of its *)
(* scheduling points, or less.                                             *)
(***************************************************************************)
EXTENDS SortInput, Sequences, Functions

CONSTANT Threads   \* the team of the parallel region

VARIABLES
  phase,   \* of the sort: "called", "region" or "returned"
  task,    \* task[k]: the frame of a task that was created
  stack    \* stack[t]: the tasks thread t has begun and not ended, innermost last

team == <<phase, task, stack>>

\* A frame has a field "at".  These values mean something to the runtime: the task
\* was created and no thread has begun it; it may begin to work; it has created its
\* first task and is about to create the second; it is in taskwait; it has ended.
SchedulingPoints == {"deferred", "working", "spawning", "waiting", "ended"}

Created    == DOMAIN task
Parent(k)  == k \div 2
Running(t) == stack[t][Len(stack[t])]

\* Thread t runs a task that has got to at.
Runs(t, at) == stack[t] # <<>> /\ task[Running(t)].at = at

TeamInit == phase = "called" /\ task = <<>> /\ stack = [t \in Threads |-> <<>>]

\* The team forms and one of its threads gets the single construct; the others
\* pass it (nowait) and wait at the barrier.
EnterRegion(root) ==
  /\ phase' = "region"
  /\ task' = [k \in {1} |-> root]
  /\ \E t \in Threads : stack' = [stack EXCEPT ![t] = <<1>>]

\* The task of thread t goes on with frame f; it has created task k as well.
GoOn(t, f) == task' = [task EXCEPT ![Running(t)] = f] /\ UNCHANGED <<phase, stack>>
Create(t, k, child, f) ==
  /\ task' = [j \in Created \cup {k} |->
                IF j = k THEN child ELSE IF j = Running(t) THEN f ELSE task[j]]
  /\ UNCHANGED <<phase, stack>>
CreateFirst(t, child, f)  == Create(t, 2 * Running(t), child, f)
CreateSecond(t, child, f) == Create(t, 2 * Running(t) + 1, child, f)

\* Thread t ends its task and goes on with the one it had suspended.
EndTask(t) ==
  /\ task' = [task EXCEPT ![Running(t)].at = "ended"]
  /\ stack' = [stack EXCEPT ![t] = SubSeq(@, 1, Len(@) - 1)]
  /\ UNCHANGED phase

\* A faulty taskwait that waits for nothing.
ChildrenEnded_any(k) == k \in Created

ChildrenEnded(k) == task[2 * k].at = "ended" /\ task[2 * k + 1].at = "ended"

TaskWait(t) == Runs(t, "waiting") /\ ChildrenEnded(Running(t)) /\ EndTask(t)

\* A parallel sort creates no more levels of tasks than it has words.
Descends(k, ancestor) == \E level \in 1 .. k : k \div (2 ^ level) = ancestor

\* A faulty team in which only threads without a task take one.
MayBegin_idle(t, k) == stack[t] = <<>>

\* At the barrier a thread begins any task, after creating a task or in taskwait
\* only a descendant of the task it suspends (the task scheduling constraint).
MayBegin(t, k) ==
  stack[t] # <<>> =>
    task[Running(t)].at \in {"spawning", "waiting"} /\ Descends(k, Running(t))

Begin(t) ==
  /\ phase = "region"
  /\ \E k \in Created :
       /\ task[k].at = "deferred" /\ MayBegin(t, k)
       /\ task' = [task EXCEPT ![k].at = "working"]
       /\ stack' = [stack EXCEPT ![t] = Append(@, k)]
  /\ UNCHANGED phase

\* A faulty barrier that waits for the single construct alone.
AllDone_root == task[1].at # "working"

\* Every thread is at the barrier and no task is left.
AllDone == (\A t \in Threads : stack[t] = <<>>) /\ (\A k \in Created : task[k].at = "ended")

\* The arrays quick_sort_recursive, which the tasks call for small ranges, may leave:
\* the words of the range in order.
QuickSorted(a, left, right) ==
  { b \in { [p \in Positions |-> IF p \in left .. right THEN a[f[p]] ELSE a[p]] :
              f \in Bijection(left .. right, left .. right) } :
      \A p, q \in left .. right : p < q => text[b[p]] <= text[b[q]] }

LeaveRegion == phase = "region" /\ AllDone /\ phase' = "returned" /\ UNCHANGED <<task, stack>>

------------------------------------------------------------------------------
\* "shared(array)", "shared(words)": a task names the parameter of the task that
\* created it, which is still there as long as the task has not ended.
SharedArrayAlive ==
  \A k \in Created \ {1} :
    task[k].at # "ended" => task[Parent(k)].at \in {"spawning", "waiting"}

------------------------------------------------------------------------------
(* The part of the sorts' invariants that is about the tasks.               *)

\* A task has created no task yet.
Childless(k) == 2 * k \notin Created /\ 2 * k + 1 \notin Created

\* What has become of the tasks that task k creates follows from where it is.
ChildrenOf(k) ==
  /\ task[k].at \notin {"spawning", "waiting", "ended"} => Childless(k)
  /\ task[k].at = "spawning" => 2 * k \in Created /\ 2 * k + 1 \notin Created
  /\ task[k].at = "waiting" => 2 * k \in Created /\ 2 * k + 1 \in Created
  /\ task[k].at = "ended" =>
       \A c \in {2 * k, 2 * k + 1} : c \in Created => task[c].at = "ended"

TeamInv ==
  /\ phase \in {"called", "region", "returned"}
  /\ Created \subseteq Nat \ {0}
  /\ stack \in [Threads -> Seq(Created)]
  /\ phase = "called" => Created = {}
  /\ phase = "returned" => \A k \in Created : task[k].at = "ended"
  /\ \A k \in Created \ {1} : Parent(k) \in Created
  /\ \A k \in Created : ChildrenOf(k)
==============================================================================
