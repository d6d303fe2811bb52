------------------------------- MODULE Strings -------------------------------
(***************************************************************************)
(* The C library functions the program is built on, over a memory that is  *)
(* a function from addresses to bytes.  A string is the sequence of bytes  *)
(* before the NUL.                                                         *)
(***************************************************************************)
EXTENDS Integers, Sequences, FiniteSetsExt

CONSTANT Letters   \* the bytes isalnum accepts

ASSUME LettersAssumption == Letters \subseteq 1 .. 255

NUL == 0

\* The baseline passes a char that may be negative, for which glibc's table has FALSE.
isalnum(byte) == byte \in Letters

strlen(memory, p) ==
  Min({ q \in DOMAIN memory : q >= p /\ memory[q] = NUL }) - p

StringAt(memory, p) == [ n \in 1 .. strlen(memory, p) |-> memory[p + n - 1] ]

\* strcmp(s, t) < 0: s is a proper prefix of t, or smaller where they first differ.
Less(s, t) ==
  \E n \in 0 .. Len(s) :
    /\ n <= Len(t)
    /\ \A k \in 1 .. n : s[k] = t[k]
    /\ n < Len(t)
    /\ n < Len(s) => s[n + 1] < t[n + 1]

\* The longest runs of letters in the first doc_len bytes, and the word a run is.
RunsOf(memory, doc_len) ==
  LET Letter(p) == p \in 0 .. (doc_len - 1) /\ isalnum(memory[p])
  IN  { r \in (0 .. (doc_len - 1)) \X (0 .. (doc_len - 1)) :
          /\ r[1] <= r[2] /\ \A p \in r[1] .. r[2] : Letter(p)
          /\ ~Letter(r[1] - 1) /\ ~Letter(r[2] + 1) }

WordAt(memory, r) == [ n \in 1 .. (r[2] - r[1] + 1) |-> memory[r[1] + n - 1] ]

\* The words of a document.
WordsOf(memory, doc_len) == { WordAt(memory, r) : r \in RunsOf(memory, doc_len) }

\* The strings they are to a program that writes a NUL behind each word it sees the end
\* of: one that ends with the document runs on to the next NUL in memory.
StringsOf(memory, doc_len) ==
  { IF r[2] = doc_len - 1 THEN StringAt(memory, r[1]) ELSE WordAt(memory, r) :
      r \in RunsOf(memory, doc_len) }
==============================================================================
