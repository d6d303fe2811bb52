# A verification of the unique-word sorter

The program reads a text file, finds its words (the longest runs of letters and
digits), and writes each word once, in the order of `strcmp`.  This directory
holds TLA+ specifications of the program from file to file, the instances TLC
checks, and theorems TLAPS proves for every instance.

## The system

| part | state | operations | meets |
|---|---|---|---|
| `WordList` (`src/src/sort_unique_words.c`) | the document, `word_array`, `word_count`, `unique_count`, the result block | tokenise in two passes, sort, drop duplicates in place, pack | called by `main`; calls one of four sorts |
| `quick_sort_words` and what it calls | the array, the C stack of `quick_sort_recursive`, the locals of `partition_words` | partition, two recursive calls | the sort `WordList` is compiled with; also the leaf case of both parallel sorts |
| `quick_sort_words_parallel` | the array shared by a team of threads, a tree of OpenMP tasks | median of three, partition, two tasks, `taskwait` | alternative sort, one line of `WordList` away (line 333) |
| `quicksort_parallel` | as above, with counters, prefix sums and `temp` in every partition | three-way partition in two parallel loops, two tasks | alternative sort (line 334) |
| `insertion_sort` | the array | | alternative sort (line 331) |
| `WordListBaseLine` (`src/src/baseline.c`) | the document, the array, in which duplicates become NULL while sorting | tokenise, quicksort that marks duplicates, compaction | what `main` calls when built with `BASELINE` |
| `LoadFile` (`src/src/driver/load_file.c`) | the open file, its size, the document buffer | open, take the size, allocate, read, skip a byte-order mark | called by `main`; reads a file other processes may write |
| `SaveWords`, `SaveTime` (`src/src/driver/load_file.c`) | a write buffer, the hash, the files `results/<name>.words` and `.time` | collect lines, flush, hash | called by `main`; overwrite the files of an earlier run |
| `main` (`src/run_sort_unique_words.c`) | the pointers between the calls, the exit status | load, find words, save, exit at the first error | everything |
| the SLURM scripts | the result files of many runs | run the program, collect the last line of each `.time` file | read what `SaveTime` wrote |

Hard behaviours: the schedules of OpenMP tasks that exchange words of one array
without a lock; writes of several threads to one `temp` at computed places; two
passes over a document that the first pass changes; an array compacted in place
while it is read; the index arithmetic of the partitions and their recursion;
allocations that fail; words that run on behind the document; a file that
changes between `ftell` and `fread`; flushes that fall between words of any
length; runs that fail or are killed half-way and are started again over the
files of earlier ones.

What makes each part correct:

* a sort rearranges the array, loses no pointer, returns, and returns sorted
  (`Sorting`); a parallel one has no data race and no deadlock as well;
* the partition of `ParPartition` has the outcome of a sequential one, whatever
  the number of blocks and their interleaving;
* `WordList` returns every word of the document once and in order
  (`UniqueWords`), and fills what it allocates exactly;
* `LoadFile` hands on bytes it has read and owns nothing else when it returns;
* `SaveWords` writes the words it is given, one to a line, wherever it flushes;
* an exit status of 0, and a complete `.time` file, mean what a user of the
  result files takes them to mean, whatever happened to other runs.

## The modules

| module | models |
|---|---|
| `Sorting` | the contract of a sort of `word_array`: the abstract specification of all sorts of the core |
| `SortInput` | what a sort is called with, and `swap_words` |
| `QuickSort` | `quick_sort_words`, `quick_sort_recursive`, `partition_words` |
| `InsertionSort` | `insertion_sort` |
| `SequentialSorts` | both sequential sorts on the same words |
| `QuickSortProofs` | the theorems about `QuickSort` and `InsertionSort` |
| `OmpTasks` | the parallel region, the tasks and the barrier both parallel sorts use |
| `OmpTasksProofs` | lemmas: what a team's operations keep, and what rearranging a range leaves in order |
| `TaskQuickSort` | `quick_sort_words_parallel`, `quick_sort_parallel`, `seq_pivot_select`, on `OmpTasks` |
| `TaskQuickSortProofs` | the theorems about `TaskQuickSort` |
| `ThreeWay` | what `par_pivot_select` and `par_sort_partition` compute |
| `ParPartition` | `par_sort_partition`, block by block, shown to compute that |
| `ParPartitionProofs` | the theorems about `ParPartition` |
| `ParQuickSort` | `quicksort_parallel`, on `OmpTasks` and `ThreeWay` |
| `ParQuickSortProofs` | the theorems about `ThreeWay`'s `Split` and `ParQuickSort` |
| `Strings` | `isalnum`, `strlen`, `strcmp` over a memory of bytes |
| `Document` | a document, its words, and the byte either core terminates a word with |
| `UniqueWords` | what `main` expects of `WordList`: the abstract specification of the program's core |
| `WordList` | `WordList` |
| `BaselineSort` | `SequentialSortUniqueWords`, `quicksort_recursive`, `partition`, `swap` of `baseline.c` |
| `BaselineSortProofs` | the theorems about `BaselineSort` |
| `Baseline` | `WordListBaseLine` |
| `WordListProofs` | the theorems about `WordList` and `Baseline` |
| `ErrorCodes` | `error_codes.h` |
| `LoadFile` | `LoadFile`, with another process that writes the file |
| `SaveWords` | `SaveWords`, `Hash` |
| `Driver` | `main` and `SaveTime`; composes `LoadFile`, `UniqueWords` and `SaveWords`, run after run |
| `DriverProofs` | the theorems about `LoadFile`, `SaveWords` and `Driver` |
| `MC...` | the constants of the runs |

Operators whose name says that they are faulty (`Call`**`Short`**,
`Terminate`**`_early`**, ...) are no part of a specification: each is the form a
plausible bug would give the definition that follows it, and a property is kept
only if such a bug breaks it.

### Correspondence

*Pointers and words.* The sorts see an array of `char*`.  A pointer is the
position its word has before the sort, so that two occurrences of one word are
told apart, and `text` gives the word behind it as an integer, in the order of
`strcmp`.  In `WordList` a pointer is an address in `memory`, and a string is
the bytes from there to the next NUL, which need not belong to the document.
In `Driver` a word is its letters.

*QuickSort.* `stack` is the C stack of `quick_sort_recursive`; a frame has the
arguments, `partition_index` and the point reached.  `partition_words` has one
activation at a time, whose `idx`, `i` and `pivot` are variables.  A step is a
call, a return or an iteration of the loop.

*InsertionSort.* One iteration of either loop is a step.  The contract is stated
for the array with `key` put in its gap (`Filled`), the refinement mapping:
inside the inner loop the array itself holds one pointer twice.

*OmpTasks.* A task is in `task` from its creation.  Threads are stacks of
tied tasks: a thread suspends a task only at a scheduling point and then begins
a descendant of it, which is the task scheduling constraint of OpenMP; at the
barrier that ends the region it begins any task.  Executing a task at once where
it is created is the case in which its creator begins it.

*TaskQuickSort.* One iteration of the loop of `seq_pivot_select` is a step.  A
range below `threshold` is sorted in one step, to any order its words may have
then (`QuickSorted`): the contract of `Sorting`, which `QuickSort` is proved to
implement; that the step can be atomic is what `NoDataRace` shows: nobody else has the range.

*ParPartition.* The blocks of both parallel loops advance independently, in any
order, which covers a team of one thread (nested regions are off by default)
and one thread per block.  The outcome is compared with `Split` of `ThreeWay`, a
sequential partition that keeps the order of equal words: there the place of a
word is the number of words of the range that precede it.  `nL`, `nE`, `nG` are one function, `counted`, and the
running places `baseL + wL`, ... are `place`.

*ParQuickSort.* A call of `par_sort_partition` is one step, with the outcome
`Split`: `ThreeWaySplit` of `ParPartition` shows that no schedule of its blocks
has another one, and `NoDataRace` that nobody else has the range meanwhile; both
are theorems.

*WordList.* One step per iteration.  `isalnum` is membership in `Letters`.
`malloc` fails or not in any call.  The call of the sort is one step, by
`Sorting` again: any rearrangement of `word_array` that puts its words in order.
`*words` is the empty sequence where the code has NULL; the caller's `*words` and
`*count` hold something else before the call.  Behind the document is whatever may be there, up to some NUL.  `Found` is the set of the
words as the code sees them: a word that ends with the document goes on to the
next NUL in memory.  `DocWords` has the words as they are in the document.

*BaselineSort.* As in `QuickSort`; `NULL` is -1.  A comparison, the marking of a
duplicate and its exchange are one iteration of the loop, hence one step.

*Baseline.* A step per byte of the document, by the two flags the code keeps:
whether the byte is a letter, and `is_prev_valid`.  The sort is one step that
keeps one pointer for every word, whichever: that is what `BaselineSort` is
proved to do (`OneOfEachLeft`, `UniqueWhenReturned`).  A pointer written behind
the array ends the call ("overrun"): nothing can be said of what follows.  The two modules are tied by
this contract and not by a refinement: `BaselineSort` sees words as integers,
`Baseline` as strings in memory.  `Document` has what the two cores share; the
names `WordList` has as well begin with `Base` in the baseline's module.

*UniqueWords.* `Listings` is the set of the results the core may return, so that
the specification says what is promised and not how to find it; a set of words
has exactly one (`ListingIs`).  `found` is what is listed: `WordList` implements
the specification with its `Found` for it on every document, and the baseline
with `DocWords` on documents that do not end in a letter.

*LoadFile.* The record `load` has the locals of the call, whether the file is
open and the buffer allocated, and `doc` as an offset into the buffer.  `ftell`
and `fread` are two steps, between which `Rewrite` may give the file any other
content; `fread` returns at most what the file holds then, or less after an
error.  `ftell` fails for a pipe.  `Char` is a byte as the code sees it: with
`char` signed, as gcc has it on x86-64, no byte equals `0xEF` and the byte-order
mark is never skipped; where it is unsigned, `*doc` moves, and main would free a
pointer that `malloc` never returned.  `CharSigned` chooses; `ResourcesOwned`
holds because it is TRUE in the build the program is made for.

*SaveWords.* The record `save` has the locals.  One iteration of the outer loop
is one step, as is the last flush with the `fclose`.  What stdio has buffered
counts as written as long as the process lives.  `Hash` computes with `HashBits`
bits for the code's 64.  Bytes of a document's words are ASCII letters, so their
sign plays no part; a last word that runs on may have others, but no property
looks at the hash of such a run.  A word may be longer than the buffer; the code
then copies it whole behind the buffer's end (line 89).  In `save` it is kept as
if there was room, which is one outcome; `Slack` is what `malloc` gives beyond
the bytes asked for, and from there on `Driver` has the others.  `XOR`, the operator `^` of C, is a parameter: the runs give it that
operator, the proofs use only that it maps naturals to naturals.  `Hash`, `HashOf`
and `Lines` are recursive functions.

*Driver.* `at` is the call `main` is in; "Freeing" is what is left of it when the
`.time` file is closed.  The core is one step, by `UniqueWords`, the
specification `WordList` and `Baseline` are shown to implement, or ends the
process.  `LoadFile` allocates exactly the bytes of the file, so that behind a
document that ends in a letter (one that is not `Closed`) anything may follow:
`behind` is chosen from `Behind`, and what the core lists is `Found` in the
document and that.  `Stray` is a run whose overrun of the write buffer reaches
behind `Slack`: it ends by a signal or with any status it could have, and what it
adds to its files is anything.  A run is `Defined` as long as it meets neither
of these two; `time_file` has whether its run was.  That the baseline may besides overrun
its array on a document that ends in a letter is shown by `baseline_last_word`
and not repeated.  `Killed` may happen at any point of a process; it loses the memory and
any tail of a `.words` file that is open, because stdio had not passed it on.
After an end of any kind the program may be started again with the same
arguments, over the files as they are.  `words_by`, the run that opened the
`.words` file last, is history the code does not keep; `time_file` has besides
the run, whether the line is there, and the hash in it.

## The runs

| run | question | bounds |
|---|---|---|
| `quicksort` | do the sort in use and `insertion_sort` sort, and is the proofs' invariant one? | 0 to 5 words, 3 texts: every order type with ties of up to 3 values, recursion of every depth up to 5 |
| `task_quicksort` | is the task sort free of races and deadlocks, and the same sort; is its `IInv` an invariant? | 0, 1, 3, 5 words, 3 texts, 2 threads, threshold 2 |
| `par_partition` | is the parallel partition the sequential one? | every range of 1, 3 and 5 words, up to 4 blocks |
| `par_quicksort` | is the recursion over it free of races and deadlocks, and the same sort? | 0, 1, 3, 4, 6 words, 3 texts, 2 threads, threshold 2 |
| `word_list` | is the result the list of the words found, and does everything fit? | every document of up to 6 bytes over 2 letters, a separator and NUL, followed by a NUL or by a letter |
| `word_list_unterminated` | are these the document's words, whatever follows it? (violated) | documents of up to 4 bytes |
| `baseline_sort` | does a sort that overwrites duplicates while it runs keep one of each word, and is its `IInv` an invariant? | 0 to 5 words, 3 texts |
| `baseline_sort_null` | is NULL bigger than any word, as `partition` says? (violated) | the same |
| `baseline` | does the baseline keep the contract of `WordList`, and do its words fit? | every document of up to 6 bytes that does not end in a letter |
| `baseline_last_word` | do they fit when it does? (violated) | every document of up to 6 bytes |
| `driver` | what do the exit status and the two files tell, after any runs, and is the proofs' `IInv` an invariant? | 3 runs, 6 input files, rewritten twice, a buffer of 3 bytes, 3 bits of `doc_len`, 8 of the hash |
| `save_words_overrun` | does `temp` hold what is put there? (violated) | the same |

Why the bounds are enough.  *quicksort*: five words have ranges with a pivot at
both ends and in the middle, empty first and second parts, and a range inside a
second part of a first part.  *task_quicksort*: with the threshold at 2, a range
of three is split and one of two is not, so five words give a root, an inner
task and leaves, with both threads at work at once, a thread that waits while it
runs a descendant, and both threads waiting.  *par_partition*: 5 words in 4
blocks make blocks of 2, 2, 1 and 0 words; 3 words make fewer blocks than
threads.  *par_quicksort*: the pivot of a partition takes no part in what
follows, so that six words, one more than above, are needed for a part of more
than two words and with it a third level of tasks; with three texts the equal
words are one to six.  *word_list*: six bytes hold three words, equal, prefixes
of each other, or different, with separators before, between and behind.
*baseline_sort*: five words with at most three texts always hold duplicates once
there are more than three, up to five of one word, so that NULLs become pivots,
are passed by the loop, and are alone in a range.  *driver*: the six files are an
empty one; `"b a b "`, whose words fill the buffer of three bytes to one byte
behind its end; `"b abab "`, with a word that overruns the buffer by as much as
the slack of two bytes takes up; `"b ba"`, which ends in a letter, so that its
last word depends on the memory behind it, where there is a line feed or so many
letters that the word reaches beyond the slack; one with a byte-order mark; and
one of nine bytes, more than a `doc_len` of three bits can say (it ends in a
letter, but only its first byte, a separator, is ever looked at).  Three runs are
one that leaves both files, one that spoils either, and one more after it; two
rewrites change the file before and after `ftell`.

Some properties are worth a word.  `PlacedForGood` is an action
property: a step moves only what some activation (or task) still has to order.
`SharedArrayAlive` is what `taskwait` is for: `shared(array)` names a parameter
of the creating call.  `PartsSplit` holds for a waiting task while other threads
reorder its parts.  In `WordList`, `UniqueKeepsWords` says that the compaction
loop, which compares with `word_array[i - 1]` after it may have been overwritten,
loses nothing; `PassesAgree`, a conjunct of `IInv`, that the two passes see the
same words although the first changes the document.  In `BaselineSort`, `OneOfEachLeft`, a conjunct of
`IInv`, says that no word ever loses its last occurrence, and `EqualsTogether` is the reason
duplicates are found at all: two occurrences of a word stay in one pending range
until they meet as pivot and element.  `Baseline` implements the same
`UniqueWords` as `WordList`, so the program's two builds agree on documents that
do not end in a letter.  In
`ParQuickSort` (whose `NoDataRace` and `SharedArrayAlive` follow from `IInv` by
proof and are not checked a second time), `EqualsStayBetween` is about the words no task is given: they
stay between the parts that other threads are sorting; `EndedForGood` says that
the range of a task that has ended is never touched again.  In `Driver`,
`TimeVouchesForWords` is what the hash in the `.time` file is for: a complete
`.time` file describes the `.words` file beside it, unless a later run has
opened that, in which case the two are of different runs and only the hash shows
it.  A run without words is excepted: `SaveWords` then reports success and leaves
an older `.words` file in place.

### Disagreements

`WordList` terminates a word when it meets the separator behind it
(`src/src/sort_unique_words.c:300`).  A document that ends in a letter has none,
so its last word runs on into whatever follows the buffer.  `LoadFile` allocates
exactly the file's size, and the unit test
(`src/test/src/test_sort_unique_words.cc:44`) passes a document that ends in
`!a` in a buffer of its length and expects 7 words.  `word_list_unterminated`
finds the shortest such document.  The README of the repository runs the program
on such a file as well, `files/simple.txt`, whose text ends in `!a`.  `word_list`
shows that nothing else goes wrong: the result is the list of what was found, and
nothing overruns; with a NUL behind the document, or a separator at its end, it
is the list of the words.  In `driver` the words saved, their hash and the exit
status of such a run depend on the memory behind the document, which is why
`SuccessMeansSaved` and `TimeVouchesForWords` except it.

`WordListBaseLine` allocates its array for `doc_len / 2` words, "a letter +
'\0'" each (`src/src/baseline.c:77`).  A last word that ends with the document
needs no separator: "a" has one word and an array of none.  `baseline_last_word`
finds it; `baseline` shows that the size is enough otherwise.

`partition` of the baseline says that NULL is bigger than any valid word
(`src/src/baseline.c:26` and `:40`) and puts it with the smaller ones.
`baseline_sort_null` shows a NULL in front of a word at the end of the sort;
`baseline_sort` shows that the result is right in spite of it.

`SaveWords` allocates `max_len` bytes for its buffer
(`src/src/driver/load_file.c:73`) and flushes it when the next word's letters
would not fit (line 85), but then adds a line feed as well (line 90).  A word
that fills the buffer exactly puts the line feed one byte behind the block:
`save_words_overrun`.  `OverrunAlone` shows that words which fit the buffer never
add up to more than this one byte, and `NothingLost` that the file is right all
the same.  (Both speak of the time before an overrun does damage; `Stray` is what
may happen then.)  For a word longer than the buffer there is no limit at all: line 89
copies it whole, and `driver` has such words (hazard `load_file.c:89`).  In the
code it takes a megabyte of letters and digits without a separator.

`LoadFile` skips a byte-order mark, "Check for UTF-8 BOM"
(`src/src/driver/load_file.c:40`), by comparing each `char` with a constant above
127.  Where `char` is signed, as in the build the program is made for, no byte is
equal to that, so the mark stays in the document; it has no letters, and the
words are the same.  `LoadFile` has it as a step that is never taken
(`CharSigned`), and it has no run of its own; were it taken, `ResourcesOwned`
would be violated.

## Fairness

The sequential parts run on one thread that nothing blocks: weak fairness of the
next-state relation.  In `TaskQuickSort` and `ParQuickSort` each thread's step is weakly fair: a
thread keeps running, and one in `taskwait` or at the barrier keeps looking for a
task it may begin.  In `ParPartition` each block's step is weakly fair: a static
schedule assigns every block to a thread that runs it to its end.  `WordList` and
`Baseline` are sequential too; their `Contract` includes that they end.  `Driver`
states no fairness: a run may be killed at any point.

## The proofs

`QuickSortProofs` proves for every set of lengths and every set of texts
(assumptions: `Counts \subseteq Nat`, `Word \subseteq Int`): type correctness,
`NoWordLost`, `PartitionInRange`, `SortedWhenReturned`, `DepthBounded`, the
action property `PlacedForGood`, and the refinement `Spec => Contract`.

Sortedness at the end is not inductive: it says nothing while the sort runs.
The invariant `IInv` says what is known in between:

* `OrderedButPending`: two pointers out of order are both in a range that one
  activation has yet to order, itself or by its second call.  When the stack is
  empty nothing is pending and this is sortedness.
* `Nested`: an activation works inside the call its caller is making, so that
  what it exchanges is pending in no caller (`PendingDisjoint`), and every call
  is for at least one word less, which bounds the depth.
* `CallersWait`: only the last activation is outside its calls, and a caller has
  at least two words and its pivot in its range.
* `LoopInv`: what the loop has established about the words it passed; with it
  the placing of the pivot turns one pending range into two.

The argument turns on `SwapInRange`: an exchange inside the running range keeps
the order of every pair that is not inside it, because such a pair was ordered
against every word of the range.  Each action has its lemma, with one step per
conjunct it can disturb.  The run `quicksort` checks `IInv` too.

Of `InsertionSort` the module proves under the same assumptions type correctness,
`NoWordLost` (with `key` in the gap no pointer is missing), `PrefixSorted`, and the
refinement of `Sorting`.  The invariant is the conjunction of the three; the
step that inserts uses that everything behind the gap is larger than `key` and
everything before it is not.  The refinement holds because a move of the inner
loop leaves `Filled` a rearrangement of what it was, so that each step of the code
is a step or a stutter of the contract.  `InsertionSorts` carries it to the
specification the run checks, where the sort follows `quick_sort_words`: no step
of one touches a variable of the other.

### The baseline's sort

`BaselineSortProofs` proves of every array of words `IInv`, and from it
`OneOfEachLeft`, `EqualsTogether`, `UniqueWhenReturned` and `DepthBounded`.  The
argument is that of `QuickSortProofs` with an order that is strict: `OrderedButPending`
says that two words which are *equal or* out of order are in a range some
activation has pending.  Equal words therefore stay in one range until they are
compared as pivot and element (`EqualsTogether`), and when nothing is pending
they have all met: the words left are strictly increasing, which is both sorted
and unique.  Of NULL the invariant says nothing: wherever it is, `Nested`,
`CallersWait` and the bound on the depth do not depend on what is compared, and a
NULL pivot only splits off one position (`NullPivotKeepsIInv`).

`OneOfEachLeft` needs to be part of the invariant because a duplicate is marked
only when the loop knows another occurrence, its pivot, to be in the array
(`LoopInv`; `WordsSurvive`).  `GapsClosed` is for the last loop, which moves words
towards the front of the array it is reading: the places before `j` hold words,
`j` is never ahead of `i`, and what is overwritten is NULL or was moved already.

### The parallel sorts

`TaskQuickSortProofs` and `ParQuickSortProofs` hold for every team of threads,
every threshold of at least 1, every set of lengths and every set of texts.  They
prove `IInv`, `NoDataRace`, `SharedArrayAlive` and the refinement `Spec =>
Contract` of both sorts; `PartsSplit` of the first; `EqualsStayBetween` and the
action property `EndedForGood` of the second.

What is about tasks only is `TeamInv` of `OmpTasks`, shared by both.  Task *k* has
created none, the first, or both of tasks 2*k* and 2*k* + 1, according to where
it is (`ChildrenOf`), and has ended only when they have.  `SharedParameter` derives
`SharedArrayAlive` from it alone.  `OmpTasksProofs` has a lemma for each thing a
thread may do (`CreateFacts`, `EndTaskFacts`, `BeginFacts`, `TaskWaitFacts`), so
the proofs about the sorts never look at a stack.

What is about the data resembles the sequential sort, with tasks for frames.  A
task has a range `Pending` on it: all of its range before the partition, what lies
behind the pivot once the first part is handed on, nothing when both parts are.

* `PendingApart`: no position is pending on two tasks.  With the fact that only
  a task at work touches words, and only pending ones, this is `NoDataRace`.
* `OrderedButPending`: two words out of order are pending on one and the same
  task.  When all tasks have ended nothing is pending: the array is sorted.
* `PivotsPlaced`, or `EqualsPlaced` for the three-way partition: the pivot (or all
  words equal to it) of a task that has partitioned is pending on nobody, so that
  `PartsSplit` and `EqualsStayBetween` survive what other tasks do meanwhile.
* `LoopInv`: what `seq_pivot_select` knows of the words it has passed.
* `EndedApart` and `PartsHandedOn` (`ParQuickSort`): the range of an ended task
  is pending on nobody; ranges of children are the outer parts of the parent's.
  The first would not be inductive without the second: a task ends after
  `taskwait`, when its range consists of its equal words and two ended ranges.

A step is a rearrangement of a pending range (`RangeRewritten`), which leaves
every pair in order that is not inside the range.  For the three-way sort that
`Split` *is* one is `SplitFacts`: the places of the words are their ranks, and
counting what comes before gives every member of a range a place of its own
(`RanksAreABijection`).

### The parallel partition

`ParPartitionProofs` proves `IInv`, `PlacesPartitionTemp` and `ThreeWaySplit` for
every range of every array and every number of threads.  `Dest(q)` is the place
of `temp` where the word at `q` has to go: the number of words of smaller classes
plus that of words of its class before it.  `Counted` says that the counters of a
block count what its loop has passed, `Placed` that its running places are those of
the next word of each class, `Filled` that `temp` holds the words passed at their
places and nothing else of the block's.  `DestFacts` shows the places distinct and
within the block of memory; `DestIsRank` that they are the ranks of `Split`.  The
blocks are cut by a division that rounds up: `BlocksApart` and `InABlock` show
that every word is in exactly one, some blocks possibly being empty.

The places start from prefix sums over the blocks.  That they equal counts over
the words before a block is an induction over the number of blocks.  It is done
on a set, the numbers for which the equation holds (`UpTo`: a set that has 0 and
with each number below *m* its successor has all of 0 .. *m*), which needs only
facts about cardinalities.

### The core

`WordListProofs` proves of every document, of every length, over any letters and
separators, and with anything behind it in memory up to some NUL: `IInv`, with it
`PassesAgree`, `PoolFits` and `UniqueKeepsWords`, and that `Spec` implements
`UniqueWords` with what is found for the words to list: the safety half of
`Contract`, and the step `Driver` takes for the core.  Only `ListsTheWords`, that
these are the words of the document, has the hypothesis `Terminated`: the document
does not end in a letter, or a NUL is behind it.  It is a condition on the caller,
true or false from the first state on (`TerminatedStays`), and it is exactly what
the run `word_list_unterminated` violates.

The invariant has a part for each phase.  The words are the positions `Starts`,
which terminating a word does not change, and the first pass has counted those
before `i` and terminated the words that end before it (`CountOK`, `TerminatedBefore`);
the second has collected the same ones (`LocateOK`).  In the compaction the entry
the code compares with, `word_array[i - 1]`, may not be the one it kept last, but
`Str(unique_count) = Str(i)` says it is the same word (`UniqueOK`).  `PackOK` says
that what remains of the block is what the remaining words need.

The lemmas are about the operators: `strcmp` is a total order (`LessTransitive`,
`LessIrreflexive`, `LessTotal`; the first difference exists by `Least`); a string
that starts where a word starts is the word found there, which in a terminated
document is the word (`RunFacts`, `StringsAreFound`, `StringsAreWords`); a sum over a set does not depend on the order it is taken in
(`SumExists`, `SumRemove`); and a set of words has only one increasing listing
(`ListingIs`, from `IncreasingIsIdentity`), which makes the result the only
member of `Listings`.

The same lemmas about documents serve the baseline.  `BaselineInvariance` proves
its invariant `BaseInv`: the pointers collected are the starts before `i`, the
words that end before it are terminated, and each word but an open one has used
up two bytes, a letter and the separator behind it (`ScanOK`).  With the last byte
no letter there is no open word at the end, so that `WordsFit` holds
(`ArrayIsLargeEnough`; its hypothesis `~MayEndInWord` is what the run
`baseline_last_word` drops).  `BaselineImplementsUniqueWords` shows under the same
hypothesis that it implements `UniqueWords` as well, and so that both builds of
the program return the same list.

### The files

`DriverProofs` holds for input files of every content and length, words of every
length, any number of runs, kills and rewrites, and write buffers of every size.  It proves first
`ResourcesOwned` and `DocWasRead` of a call of `LoadFile` with a concurrent writer
(`LoadSpec`).  The invariant `LoadInv` says what is owned at each point of the call,
and that `doc + doc_len` is the length read, reduced to the width of `doc_len`,
before and after the byte-order mark is skipped; `LengthFits` is the lemma about
that width, `NoBomIfSigned` the one about the mark.

It then proves `IInv` of `Driver`, and from it the six properties the run `driver`
checks besides: those two of every run, and `NothingLost`, `OverrunAlone`,
`SuccessMeansSaved` and `TimeVouchesForWords`.  The conjuncts of `IInv`:

* `TypeOK`, which includes `LoadInv`, and that the words of a document that does
  not end in a letter consist of letters (`MemoryFacts`, `FoundFacts`).
* `CallsInOrder`: main is behind a call only if that call succeeded, and what it
  saves is a listing of what was found in what it loaded.
* `SaveProgress`: the file and the buffer together are the lines of the words so
  far, and the hash is that of these bytes, if the words are letters only.  This is
  what makes a flush invisible: it moves bytes from one to the other
  (`LineBehind`).
* `FilesOf`: which run the two result files are of.  `TimeVouchesForWords` speaks
  of a run long ended, so that it has to survive every step of later ones; it
  does because the first thing a later run does to the `.words` file is to become
  `words_by`.  A run that strays is not `Defined` (`StrayIsUndefined`), and neither
  `TimeVouchesForWords` nor `SuccessMeansSaved` says anything of its files.

`SaveWords` hashes words, a reader of the file bytes.  That the two hashes agree is
`HashOfLine`: reading one more line continues the hash with its word.  `Hash` and
`HashOf` are recursive functions; that each satisfies its equation, and that two
which take the same steps agree, is proved by induction over the length, done on
sets as in the parallel partition (`UpTo`, `Recursion`, `SameSteps`).

Assumed: 2^`HashBits` and 2^`LenBits` are positive integers; `XOR` of naturals is a
natural; a letter is a byte other than NUL and the line feed; what follows a
document in memory up to a NUL is bytes; and for `ResourcesOwned` that `char` is
signed.

### What is not proved

* The `Termination` properties, and the half of `WordList`'s and `Baseline`'s
  contracts that says the call ends: liveness.
* That `Baseline` with `BaselineSort` in the place of its step `SortUnique` is
  still a refinement: they are composed by contract, as described above.  The same
  holds of `WordList` and the four sorts, of which each is proved to implement
  `Sorting`, and `WordList` to be right with any sort that does.

## What is not modelled, and the plan

Done: every function of the program's own sources that changes state, each
composed with those it meets: the sorts under the contract `WordList` needs,
`WordList` and `Baseline` under the one `main` needs, `main` with its files.

Not modelled:

* `CalcTime`, the number of threads (an `int8_t`) and the wording of the `.time`
  line: numbers that are formatted and read by nothing here.
* The results of `fwrite` and `fclose`, which the code ignores: the models are of
  a disk with room.  On a full one `SaveWords` reports words as saved that are not.
* Allocations of `par_sort_partition` and `WordListBaseLine` that are not tested:
  a failure is a write through NULL, which `Driver` has as a process that is killed.
* The width of the `int`s the sorts compute with: they could overflow only near
  2^31 words, for which a document takes the whole 4 GiB of `doc_len`.
* The size of the C stack.  `DepthBounded` says that the sequential sorts make at
  most one activation per word; a document already in order makes that many, and a
  large one exhausts the stack.
* The SLURM scripts, which run the program once for each number of threads and
  take the last line of each `.time` file without looking at the exit status; a
  row may be one of an earlier experiment.  `SuccessMeansSaved` says what a script
  that did look could rely on.
* The headers (declarations; `FreeRes` has no implementation), the Makefile, the
  tests, which are read as statements about the code, and gtest, which is vendored
  under `src/gtest`.  gtest is most of the repository by lines: about 25000 of
  26000; the program itself has some 700.

Every safety property the passing runs check is a theorem as well; what stays
with TLC is listed under *What is not proved*.
