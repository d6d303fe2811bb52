------------------------------ MODULE Document -------------------------------
(***************************************************************************)
(* What the program's two cores share, WordList and WordListBaseLine: a    *)
(* document in memory, in which they find the words and terminate them.    *)
(***************************************************************************)
EXTENDS Strings, FiniteSets

CONSTANTS
  Separators,   \* the bytes other than NUL that are no letters
  MaxLen        \* bound on doc_len

ASSUME DocumentAssumption ==
  /\ Separators \subseteq (1 .. 255) \ Letters
  /\ MaxLen \in Nat

Bytes == {NUL} \cup Letters \cup Separators

VARIABLES
  memory, doc_len,   \* the document and what lies behind it
  words,             \* *words: the strings WordList returns, the baseline's pointers
  at, i              \* the loop the core is in, and its counter

\* A faulty terminator that replaces the last letter.
Terminate_early(p) == [memory EXCEPT ![p - 1] = NUL]

\* What either core does with the byte behind a word.
Terminate(p) == [memory EXCEPT ![p] = NUL]

DocWords == WordsOf(memory, doc_len)
Found    == StringsOf(memory, doc_len)

------------------------------------------------------------------------------
(* What the invariants say of a document.                                   *)

\* The words of the document, by the positions they start at.
Letter(p)       == p \in 0 .. (doc_len - 1) /\ isalnum(memory[p])
Starts          == { p \in 0 .. (doc_len - 1) : Letter(p) /\ ~Letter(p - 1) }
StartsBefore(m) == { p \in Starts : p < m }
StartStrings    == { StringAt(memory, p) : p \in Starts }

\* The words that end before m have been terminated.
TerminatedBefore(m) ==
  \A p \in 1 .. (doc_len - 1) : (p < m /\ Letter(p - 1) /\ ~Letter(p)) => memory[p] = NUL

\* The last word has its NUL if there is one behind the document.
Terminated == Letter(doc_len - 1) => memory[doc_len] = NUL

\* There is memory behind the document, up to a NUL.
MemoryOK ==
  \E last \in DOMAIN memory :
    /\ last >= doc_len /\ memory[last] = NUL
    /\ memory \in [0 .. last -> 0 .. 255]

\* Each word of s is smaller than the next.
Increasing(s) == \A k \in 1 .. (Len(s) - 1) : Less(s[k], s[k + 1])
==============================================================================
