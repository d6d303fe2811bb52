----------------------------- MODULE UniqueWords -----------------------------
(***************************************************************************)
(* What main expects of the program's core, WordList or WordListBaseLine:  *)
(* it returns every word found in the document once, in the order of       *)
(* strcmp, and their number.                                               *)
(***************************************************************************)
EXTENDS Strings, FiniteSets

VARIABLES
  found,    \* the words of the document, the last one as far as it goes in memory
  words,    \* *words
  count,    \* *count
  done      \* the call has returned

\* What may be returned; WordListProofs shows that the words of a document leave no choice.
Listings ==
  { s \in [1 .. Cardinality(found) -> found] : \A j, k \in DOMAIN s : j < k => Less(s[j], s[k]) }

Init == words = <<>> /\ count = 0 /\ done = FALSE

Return ==
  /\ ~done
  /\ words' \in Listings
  /\ count' = Cardinality(found)
  /\ done' = TRUE
  /\ UNCHANGED found

Spec == Init /\ [][Return]_<<found, words, count, done>>
==============================================================================
