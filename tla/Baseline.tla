------------------------------ MODULE Baseline -------------------------------
(***************************************************************************)
(* WordListBaseLine of src/baseline.c: one pass over the document finds    *)
(* the words and terminates them, SequentialSortUniqueWords does the rest. *)
(* That sort is one step here, by what BaselineSort shows of it.           *)
(***************************************************************************)
EXTENDS Document

CONSTANT MayEndInWord   \* whether the last byte of a document may be a letter

ASSUME BaselineAssumption == MayEndInWord \in BOOLEAN

VARIABLE is_prev_valid

\* words has the pointers in *words, *count is their number; at is "called", "scanning",
\* "overrun" or "returned".
base_vars == <<memory, doc_len, words, at, i, is_prev_valid>>

\* A faulty size that allows for a separator on both sides.
max_words_short == doc_len \div 3

max_words == doc_len \div 2

------------------------------------------------------------------------------
BaseInit ==
  /\ doc_len \in 0 .. MaxLen
  /\ \E d \in [0 .. (doc_len - 1) -> Bytes] :
       /\ (~MayEndInWord /\ doc_len > 0) => ~isalnum(d[doc_len - 1])
       /\ memory = [p \in 0 .. doc_len |-> IF p < doc_len THEN d[p] ELSE NUL]
  /\ words = <<>>
  /\ at = "called"
  /\ i = 0 /\ is_prev_valid = FALSE

WordListBaseLine ==
  /\ at = "called"
  /\ words' = <<>>
  /\ at' = "scanning"
  /\ UNCHANGED <<memory, doc_len, i, is_prev_valid>>

\* A letter after no letter starts a word, the byte after its last letter ends it.  A
\* pointer written behind the array ends what can be said of the call.
Scan ==
  /\ at = "scanning" /\ i < doc_len
  /\ is_prev_valid' = isalnum(memory[i])
  /\ words' = IF isalnum(memory[i]) /\ ~is_prev_valid THEN Append(words, i) ELSE words
  /\ memory' = IF ~isalnum(memory[i]) /\ is_prev_valid THEN Terminate(i) ELSE memory
  /\ i' = i + 1
  /\ at' = IF Len(words') <= max_words THEN "scanning" ELSE "overrun"
  /\ UNCHANGED doc_len

\* SequentialSortUniqueWords: of every word one pointer is left.
SortUnique ==
  /\ at = "scanning" /\ i >= doc_len
  /\ LET pointers == {words[k] : k \in 1 .. Len(words)}
         texts    == {StringAt(memory, p) : p \in pointers}
     IN  \E chosen \in SUBSET pointers :
           /\ Cardinality(chosen) = Cardinality(texts)
           /\ {StringAt(memory, p) : p \in chosen} = texts
           /\ words' \in [1 .. Cardinality(texts) -> chosen]
  /\ \A k \in 2 .. Len(words') : Less(StringAt(memory, words'[k - 1]), StringAt(memory, words'[k]))
  /\ at' = "returned"
  /\ UNCHANGED <<memory, doc_len, i, is_prev_valid>>

Returned == at \in {"returned", "overrun"} /\ UNCHANGED base_vars

BaseNext == WordListBaseLine \/ Scan \/ SortUnique \/ Returned

BaseSpec == BaseInit /\ [][BaseNext]_base_vars

\* One thread runs it and nothing blocks it.
BaseFairSpec == BaseSpec /\ WF_base_vars(BaseNext)

------------------------------------------------------------------------------
\* "minimum chars: a letter + '\0'": the words found fit the array allocated for
\* the smallest words a document can have.
WordsFit == at # "called" => Len(words) <= max_words

\* On documents that do not end in a letter the baseline keeps the same promise as
\* WordList, so that the two can be compared, and returns.
Strs == [k \in 1 .. Len(words) |-> StringAt(memory, words[k])]

BU == INSTANCE UniqueWords WITH
       found <- DocWords,
       words <- IF at = "returned" THEN Strs ELSE <<>>,
       count <- IF at = "returned" THEN Len(words) ELSE 0,
       done  <- (at = "returned")
BaseContract == BU!Spec /\ <>(at = "returned")

------------------------------------------------------------------------------
(* The inductive invariant.                                                 *)

\* words has the starts before i, each word but an open one with a separator of its own.
ScanOK ==
  /\ i \in 0 .. doc_len
  /\ is_prev_valid \in BOOLEAN /\ (is_prev_valid <=> Letter(i - 1))
  /\ words \in Seq(0 .. (doc_len - 1)) /\ Len(words) = Cardinality(StartsBefore(i))
  /\ { words[k] : k \in DOMAIN words } = StartsBefore(i)
  /\ TerminatedBefore(i)
  /\ 2 * Len(words) <= i + (IF is_prev_valid THEN 1 ELSE 0)

BaseInv ==
  /\ doc_len \in Nat /\ at \in {"called", "scanning", "overrun", "returned"}
  /\ MemoryOK /\ Terminated
  /\ at = "called" => words = <<>> /\ i = 0
  /\ at # "returned" => ScanOK
  /\ ~MayEndInWord => ~Letter(doc_len - 1) /\ WordsFit
==============================================================================
