------------------------------ MODULE WordList -------------------------------
(***************************************************************************)
(* WordList of src/sort_unique_words.c, from the call to the return: two   *)
(* passes over the document, the sort, the removal of duplicates and the   *)
(* packing of the result into one block.  One step is one iteration of a   *)
(* loop, or an allocation, which may fail.                                 *)
(*                                                                         *)
(* A pointer into the document is an address of "memory", which holds the  *)
(* doc_len bytes of the document and the bytes that follow it.  What the   *)
(* code calls word_array[n] is word_array[n + 1] here.  The sort is the    *)
(* one Sorting specifies and QuickSort implements.                         *)
(***************************************************************************)
EXTENDS Document

CONSTANT Following   \* what may lie in memory after the document, up to a NUL

ASSUME WordListAssumption ==
  /\ Following \subseteq Seq(0 .. 255)
  /\ \A s \in Following : Len(s) > 0 /\ s[Len(s)] = NUL

\* words is <<>> when the code has it NULL; at is "called", "counting", "locating",
\* "unique", "sizing", "packing", "returned" or "exited".
VARIABLES
  count,   \* *count
  in_word, word_count, word_array, unique_count, str_size,
  pool,    \* the bytes of the block's string part used so far
  out      \* the strings out points to

results == <<words, count>>
array   == <<word_count, word_array, unique_count>>
block   == <<str_size, pool, out>>
vars    == <<memory, doc_len, results, at, i, in_word, array, block>>

\* The string word_array[k] points to.
Str(k) == StringAt(memory, word_array[k])

\* The byte looked at starts a word; it ends one.
StartsWord == isalnum(memory[i]) /\ ~in_word
EndsWord   == ~isalnum(memory[i]) /\ in_word

\* A faulty test for duplicates.
Differs_not(k) == Str(k) = Str(k - 1)

Differs(k) == Str(k) # Str(k - 1)

\* A faulty order, by length.
Sorted_by_length(a) ==
  \A k \in 2 .. Len(a) :
    Len(StringAt(memory, a[k - 1])) <= Len(StringAt(memory, a[k]))

Sorted(a) ==
  \A k \in 2 .. Len(a) : ~Less(StringAt(memory, a[k]), StringAt(memory, a[k - 1]))

------------------------------------------------------------------------------
\* The caller's words and count may hold anything.
Init ==
  /\ doc_len \in 0 .. MaxLen
  /\ \E d \in [0 .. (doc_len - 1) -> Bytes], s \in Following :
       memory = [ p \in 0 .. (doc_len + Len(s) - 1) |->
                    IF p < doc_len THEN d[p] ELSE s[p - doc_len + 1] ]
  /\ words = << <<>> >> /\ count = 1
  /\ at = "called"
  /\ i = 0 /\ in_word = FALSE
  /\ word_count = 0 /\ word_array = <<>> /\ unique_count = 0
  /\ str_size = 0 /\ pool = 0 /\ out = <<>>

\* A faulty entry that leaves the caller's results alone.
Enter_unreset ==
  /\ at = "called"
  /\ at' = IF doc_len = 0 THEN "returned" ELSE "counting"
  /\ UNCHANGED <<memory, doc_len, results, i, in_word, array, block>>

\* The results are reset; an empty document is done, as is a *doc that is NULL.  (main
\* passes no NULL for words and count, which the code allows.)
Enter ==
  /\ at = "called"
  /\ words' = <<>> /\ count' = 0
  /\ at' = IF doc_len = 0 THEN "returned" ELSE "counting"
  /\ UNCHANGED <<memory, doc_len, i, in_word, array, block>>

\* The first pass counts the words at their starts and terminates them.
Count ==
  /\ at = "counting" /\ i < doc_len
  /\ word_count' = IF StartsWord THEN word_count + 1 ELSE word_count
  /\ memory' = IF EndsWord THEN Terminate(i) ELSE memory
  /\ in_word' = isalnum(memory[i])
  /\ i' = i + 1
  /\ UNCHANGED <<doc_len, results, at, word_array, unique_count, block>>

\* A document without words is done; for another word_array is allocated.
Allocate ==
  /\ at = "counting" /\ i >= doc_len
  /\ at' \in IF word_count = 0 THEN {"returned"} ELSE {"locating", "exited"}
  /\ i' = 0 /\ in_word' = FALSE
  /\ UNCHANGED <<memory, doc_len, results, array, block>>

\* The second pass collects the starts; word_start is Len(word_array).
Locate ==
  /\ at = "locating" /\ i < doc_len
  /\ word_array' = IF StartsWord THEN Append(word_array, i) ELSE word_array
  /\ in_word' = isalnum(memory[i])
  /\ i' = i + 1
  /\ UNCHANGED <<memory, doc_len, results, at, word_count, unique_count, block>>

\* quick_sort_words.
Sort ==
  /\ at = "locating" /\ i >= doc_len
  /\ \E f \in Bijection(DOMAIN word_array, DOMAIN word_array) :
       word_array' = [k \in DOMAIN word_array |-> word_array[f[k]]]
  /\ Sorted(word_array')
  /\ at' = "unique" /\ i' = 1 /\ unique_count' = 1
  /\ UNCHANGED <<memory, doc_len, results, in_word, word_count, block>>

\* A word that differs from the one before it stays.
Unique ==
  /\ at = "unique" /\ i < word_count
  /\ IF Differs(i + 1)
     THEN /\ word_array' = [word_array EXCEPT ![unique_count + 1] = word_array[i + 1]]
          /\ unique_count' = unique_count + 1
     ELSE UNCHANGED <<word_array, unique_count>>
  /\ i' = i + 1
  /\ UNCHANGED <<memory, doc_len, results, at, in_word, word_count, block>>

UniqueDone ==
  /\ at = "unique" /\ i >= word_count
  /\ at' = "sizing" /\ i' = 0
  /\ UNCHANGED <<memory, doc_len, results, in_word, array, block>>

\* A faulty sum that forgets the NUL.
Size_no_nul ==
  /\ at = "sizing" /\ i < unique_count
  /\ str_size' = str_size + Len(Str(i + 1))
  /\ i' = i + 1
  /\ UNCHANGED <<memory, doc_len, results, at, in_word, array, pool, out>>

\* The bytes of the unique words, each with its NUL.
Size ==
  /\ at = "sizing" /\ i < unique_count
  /\ str_size' = str_size + Len(Str(i + 1)) + 1
  /\ i' = i + 1
  /\ UNCHANGED <<memory, doc_len, results, at, in_word, array, pool, out>>

AllocateBlock ==
  /\ at = "sizing" /\ i >= unique_count
  /\ at' \in {"packing", "exited"}
  /\ i' = 0
  /\ UNCHANGED <<memory, doc_len, results, in_word, array, block>>

\* A word is copied, with its NUL, behind the ones before it.
Pack ==
  /\ at = "packing" /\ i < unique_count
  /\ out' = Append(out, Str(i + 1))
  /\ pool' = pool + Len(Str(i + 1)) + 1
  /\ i' = i + 1
  /\ UNCHANGED <<memory, doc_len, results, at, in_word, array, str_size>>

Return ==
  /\ at = "packing" /\ i >= unique_count
  /\ words' = out /\ count' = unique_count
  /\ at' = "returned"
  /\ UNCHANGED <<memory, doc_len, i, in_word, array, block>>

Ended == at \in {"returned", "exited"} /\ UNCHANGED vars

Next ==
  \/ Enter \/ Count \/ Allocate \/ Locate \/ Sort \/ Unique \/ UniqueDone
  \/ Size \/ AllocateBlock \/ Pack \/ Return \/ Ended

Spec == Init /\ [][Next]_vars

\* One thread runs WordList and nothing blocks it.
FairSpec == Spec /\ WF_vars(Next)

------------------------------------------------------------------------------
\* The second pass finds as many starts as the first has counted, although the
\* first changed the document: it never writes behind word_array, and leaves no
\* entry of it unset for the sort.
PassesAgree ==
  /\ Len(word_array) <= word_count
  /\ at \in {"unique", "sizing", "packing"} => Len(word_array) = word_count

\* While duplicates are removed in place, the entries kept are in strict order
\* and none of the strings found is overwritten before it has been kept.
UniqueKeepsWords ==
  at = "unique" =>
    /\ \A k \in 1 .. (unique_count - 1) : Less(Str(k), Str(k + 1))
    /\ { Str(k) : k \in (1 .. unique_count) \cup ((i + 1) .. word_count) } = Found

\* The bytes each entry of word_array needs, and those of the unique words from the
\* m-th on.
Sizes   == [k \in DOMAIN word_array |-> Len(Str(k)) + 1]
Needs(m) == SumFunctionOnSet(Sizes, m .. unique_count)

\* The copies fit: what is left of the block is what the words still to be
\* copied need.
PoolFits == at = "packing" => str_size - pool = Needs(i + 1)

\* The result lists the words of the document, each once and in order.
ListsTheWords ==
  at = "returned" =>
    /\ count = Len(words)
    /\ \A k \in 1 .. (count - 1) : Less(words[k], words[k + 1])
    /\ { words[k] : k \in 1 .. count } = DocWords

\* WordList keeps the promise main relies on, and ends on every document.  What it finds
\* are the words, of which the last may run on behind the document.
U == INSTANCE UniqueWords WITH
       found <- Found,
       words <- IF at = "returned" THEN words ELSE <<>>,
       count <- IF at = "returned" THEN count ELSE 0,
       done  <- (at = "returned")
Contract == U!Spec /\ <>(at \in {"returned", "exited"})
------------------------------------------------------------------------------
(* The inductive invariant.                                                  *)

\* A pass over the document remembers what the byte before the next one is.
PassOK ==
  at \in {"counting", "locating"} =>
    i \in 0 .. doc_len /\ in_word \in BOOLEAN /\ (in_word <=> Letter(i - 1))

CountOK ==
  /\ at = "called" => word_count = 0 /\ i = 0 /\ in_word = FALSE
  /\ at = "counting" => word_count = Cardinality(StartsBefore(i)) /\ TerminatedBefore(i)
  /\ at \notin {"called", "counting"} =>
       word_count = Cardinality(Starts) /\ TerminatedBefore(doc_len)

\* word_array has the starts found so far, and after the sort words of the document.
LocateOK ==
  /\ word_array \in Seq(0 .. (doc_len - 1))
  /\ at \in {"called", "counting"} => word_array = <<>>
  /\ at = "locating" =>
       /\ word_count > 0
       /\ Len(word_array) = Cardinality(StartsBefore(i))
       /\ { word_array[k] : k \in DOMAIN word_array } = StartsBefore(i)
  /\ at \in {"unique", "sizing", "packing"} => Len(word_array) = word_count

\* The entry compared with is not the one kept last, but a duplicate of it.
UniqueOK ==
  at = "unique" =>
    /\ i \in 1 .. word_count /\ unique_count \in 1 .. i
    /\ \A k \in 1 .. (unique_count - 1) : Less(Str(k), Str(k + 1))
    /\ \A k \in i .. (word_count - 1) : ~Less(Str(k + 1), Str(k))
    /\ Str(unique_count) = Str(i)
    /\ { Str(k) : k \in (1 .. unique_count) \cup ((i + 1) .. word_count) } = StartStrings

PackOK ==
  /\ at # "packing" /\ at # "returned" => pool = 0 /\ out = <<>>
  /\ at \notin {"sizing", "packing", "returned", "exited"} => str_size = 0
  /\ at \in {"sizing", "packing"} =>
       /\ unique_count \in 1 .. word_count /\ i \in 0 .. unique_count
       /\ \A k \in 1 .. (unique_count - 1) : Less(Str(k), Str(k + 1))
       /\ { Str(k) : k \in 1 .. unique_count } = StartStrings
  /\ at = "sizing" => str_size \in Nat /\ str_size + Needs(i + 1) = Needs(1)
  /\ at = "packing" =>
       /\ str_size \in Nat /\ pool \in Nat
       /\ str_size = pool + Needs(i + 1)
       /\ out \in Seq(Seq(0 .. 255)) /\ Len(out) = i
       /\ \A k \in 1 .. i : out[k] = Str(k)

ResultOK ==
  /\ at \notin {"called", "returned"} => words = <<>> /\ count = 0
  /\ at = "returned" =>
       /\ words \in Seq(Seq(0 .. 255)) /\ count = Len(words)
       /\ Increasing(words)
       /\ { words[k] : k \in 1 .. count } = StartStrings

IInv ==
  /\ doc_len \in Nat
  /\ at \in {"called", "counting", "locating", "unique", "sizing", "packing",
             "returned", "exited"}
  /\ MemoryOK /\ PassOK /\ CountOK /\ LocateOK /\ PassesAgree
  /\ UniqueOK /\ PackOK /\ ResultOK
==============================================================================
