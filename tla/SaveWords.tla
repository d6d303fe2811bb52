------------------------------ MODULE SaveWords ------------------------------
(***************************************************************************)
(* SaveWords and Hash of src/driver/load_file.c: the words are collected   *)
(* in a buffer, one to a line, which is written to the file whenever the   *)
(* next word would not fit.  What stdio buffers counts as written.         *)
(*                                                                         *)
(* The record save has the locals of SaveWords and *hash.  Of temp it has  *)
(* the first curr_len bytes; no other is ever read.  A word may be longer  *)
(* than the buffer.  What is then written behind it is kept as if there    *)
(* was room, one outcome of what C leaves undefined: Driver adds others.   *)
(***************************************************************************)
EXTENDS Integers, Sequences, ErrorCodes

CONSTANTS
  max_len,     \* the code's 1 MiB
  Slack,       \* the bytes malloc gives beyond them, 4080 for glibc's whole pages
  HashBits,    \* the width of size_t, 64 in the code
  FNV_OFFSET_BASIS, FNV_PRIME,
  XOR(_, _)    \* the operator ^ of C

\* UINT64_MAX / 2
Modulus == (2 ^ HashBits - 1) \div 2

ASSUME SaveWordsAssumption ==
  /\ max_len \in Nat \ {0} /\ Slack \in Nat \ {0} /\ HashBits \in Nat \ {0}
  /\ FNV_OFFSET_BASIS \in 0 .. (Modulus - 1) /\ FNV_PRIME \in Nat

\* What the proofs need to know of a power of two, and of exclusive or.
ASSUME HashAssumption ==
  /\ 2 ^ HashBits \in Nat \ {0}
  /\ \A h \in 0 .. (2 ^ HashBits - 1), byte \in 0 .. 255 : XOR(h, byte) \in Nat

VARIABLES
  words,
  words_file,   \* results/<filename>.words
  save

\* Before SaveWords is called.
NotSaved ==
  [at   |-> "called",   \* or "opened", "looping", "returned", "exited"
   ret  |-> SUCCESS_CODE,
   hash |-> 0,
   temp |-> <<>>,
   i    |-> 1]

LF       == 10
count    == Len(words)
curr_len == Len(save.temp)

\* A faulty hash that is not brought back into its range.
Hash_unreduced(prev_hash, word) ==
  LET h[k \in 0 .. Len(word)] ==
        IF k = 0 THEN prev_hash ELSE XOR(h[k - 1], word[k]) * FNV_PRIME
  IN  h[Len(word)]

\* A letter of the word, in the arithmetic of size_t.
Mix(h, letter) == (XOR(h, letter) * FNV_PRIME) % 2 ^ HashBits

Hash(prev_hash, word) ==
  LET h[k \in 0 .. Len(word)] == IF k = 0 THEN prev_hash ELSE Mix(h[k - 1], word[k])
  IN  h[Len(word)] % Modulus

Line(word) == Append(word, LF)

\* A faulty fopen, with the mode "ab".
Opened_append == words_file

\* fopen with the mode "wb".
Opened == <<>>

\* Faulty flushes: the buffer is never written; it keeps its bytes when it is.
Full_never(j)   == FALSE
AfterFlush_kept == save.temp

\* Whether the buffer has to be written before a word of j letters, and what it
\* then holds.
Full(j)    == curr_len + j > max_len
AfterFlush == <<>>

------------------------------------------------------------------------------
SaveNothing ==
  /\ save.at = "called" /\ count = 0
  /\ save' = [save EXCEPT !.at = "returned"]
  /\ UNCHANGED words_file

OpenWordsFails ==
  /\ save.at = "called" /\ count # 0
  /\ save' = [save EXCEPT !.at = "returned", !.ret = ERR_SAVE_FILE_OPEN]
  /\ UNCHANGED words_file

OpenWords ==
  /\ save.at = "called" /\ count # 0
  /\ words_file' = Opened
  /\ save' = [save EXCEPT !.at = "opened"]

\* The buffer is allocated when the file is empty already; without it the process
\* ends.
AllocateTemp ==
  /\ save.at = "opened"
  /\ \/ save' = [save EXCEPT !.at = "looping", !.hash = FNV_OFFSET_BASIS]
     \/ save' = [save EXCEPT !.at = "exited"]
  /\ UNCHANGED words_file

\* A word is copied into the buffer, behind the ones before it or, when it would not
\* fit, after the buffer was written.
SaveWord ==
  /\ save.at = "looping" /\ save.i <= count
  /\ LET word  == words[save.i]
         flush == Full(Len(word))
     IN  /\ words_file' = IF flush THEN words_file \o save.temp ELSE words_file
         /\ save' = [save EXCEPT !.temp = (IF flush THEN AfterFlush ELSE @) \o Line(word),
                                 !.hash = Hash(@, word),
                                 !.i = @ + 1]

CloseWords ==
  /\ save.at = "looping" /\ save.i > count
  /\ words_file' = words_file \o save.temp
  /\ save' = [save EXCEPT !.at = "returned"]

SaveStep ==
  SaveNothing \/ OpenWordsFails \/ OpenWords \/ AllocateTemp \/ SaveWord \/ CloseWords

------------------------------------------------------------------------------
SaveFrame ==
  [at : {"called", "opened", "looping", "returned", "exited"}, ret : {SUCCESS_CODE, ERR_SAVE_FILE_OPEN},
   hash : 0 .. (Modulus - 1), temp : Seq(0 .. 255), i : Nat \ {0}]

SaveTypeOK == save \in SaveFrame /\ save.i <= count + 1 /\ words_file \in Seq(0 .. 255)

\* The text of the first n words.
Lines[n \in 0 .. count] == IF n = 0 THEN <<>> ELSE Lines[n - 1] \o Line(words[n])

\* Wherever the flushes fall, the file followed by the buffer is the lines of the
\* words so far: none is lost, doubled or cut at the end of the buffer.
NothingLost == save.at = "looping" => words_file \o save.temp = Lines[save.i - 1]

\* What reaches further behind the buffer than the line feed the flush test forgets is
\* one word that is longer than the buffer itself: the words before it have been written
\* to the file, and no two words add up to an overrun.
OverrunAlone == curr_len > max_len + 1 => save.temp = Line(words[save.i - 1])

\* "size_t max_len": the buffer holds no more than what was allocated for it, at least
\* if every line is shorter.
TempHoldsBuffer == (\A k \in 1 .. count : Len(words[k]) < max_len) => curr_len <= max_len

\* The hash of the words a file lists, computed from its bytes.
HashOf(bytes) ==
  LET h[k \in 0 .. Len(bytes)] ==
        IF k = 0 THEN FNV_OFFSET_BASIS
        ELSE IF bytes[k] = LF THEN h[k - 1] % Modulus
        ELSE Mix(h[k - 1], bytes[k])
  IN  h[Len(bytes)]
==============================================================================
