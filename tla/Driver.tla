-------------------------------- MODULE Driver -------------------------------
(***************************************************************************)
(* main of run_sort_unique_words.c, from file to file, and run again with  *)
(* the same arguments: LoadFile, the core, SaveWords and SaveTime, any of  *)
(* which may fail, in a process that may be killed at any point (time      *)
(* limit, out of memory).  The result files stay as they are then.         *)
(*                                                                         *)
(* The core, WordList or WordListBaseLine, is one step here, by UniqueWords, *)
(* the contract both are shown to keep.                                    *)
(***************************************************************************)
EXTENDS LoadFile, SaveWords

CONSTANTS
  Letters,   \* the bytes isalnum accepts
  Behind,    \* what may lie in memory behind a block, up to a NUL
  MaxRuns    \* bound on the runs of the program

ASSUME DriverAssumption ==
  /\ Letters \subseteq 1 .. 255 /\ LF \notin Letters
  /\ Behind \subseteq Seq(1 .. 255)
  /\ MaxRuns \in Nat

VARIABLES
  at,          \* "idle", the call main is in, "WritingTime", "Freeing" or "ended"
  exit,        \* the exit status as the shell sees it
  run,         \* how often the program was called
  behind,      \* what lies in memory behind the buffer of the document
  words_by,    \* the run that opened words_file last, 0 if none did
  time_file    \* results/<filename>.time: its run, whether it has its line, the hash there,
               \* and whether that run was Defined

files == <<words_file, words_by, time_file>>
vars  == <<disk, load, behind, words, save, at, exit, run, files>>

USAGE     == 1
SIGABRT   == 134   \* as the shell shows the end by a signal
SIGKILLED == 137
SIGSEGV   == 139

C == INSTANCE Strings

\* The document that LoadFile returned, what else is in the buffer, and what is behind it.
Memory ==
  LET bytes == SubSeq(load.buffer, load.doc + 1, Len(load.buffer)) \o behind
  IN  [p \in 0 .. Len(bytes) |-> IF p < Len(bytes) THEN bytes[p + 1] ELSE C!NUL]

\* What the core finds in it, and the words that are there.
Found    == C!StringsOf(Memory, load.doc_len)
DocWords == C!WordsOf(Memory, load.doc_len)

Core == INSTANCE UniqueWords WITH found <- Found, done <- (at \notin {"LoadFile", "WordList"})

\* The document does not end in a letter.
Closed == load.doc_len = 0 \/ load.buffer[load.doc + load.doc_len] \notin Letters

\* The run does nothing C leaves undefined, but for what malloc's slack takes up.
Defined == Closed /\ \A k \in 1 .. count : Len(words[k]) < max_len + Slack

TimeFile(complete, hash) ==
  [of |-> run, complete |-> complete, hash |-> hash, defined |-> Defined]

\* The shell sees the low byte of an exit status.
Exit(code) == at' = "ended" /\ exit' = code % 256

\* A faulty main that goes on after an error of SaveWords.
WordsFailed_ignored == FALSE

WordsFailed == save.ret # SUCCESS_CODE

------------------------------------------------------------------------------
Init ==
  /\ LoadInit
  /\ behind = <<>> /\ words = <<>> /\ save = NotSaved
  /\ at = "idle" /\ exit = 0 /\ run = 0
  /\ words_file = <<>> /\ words_by = 0
  /\ time_file = TimeFile(FALSE, 0)

NewMemory == load' = NotLoaded /\ behind' = <<>> /\ words' = <<>> /\ save' = NotSaved

\* The program is called, with the right number of arguments or not.
Launch ==
  /\ at \in {"idle", "ended"} /\ run < MaxRuns
  /\ run' = run + 1
  /\ NewMemory
  /\ \/ at' = "LoadFile" /\ UNCHANGED exit
     \/ Exit(USAGE)
  /\ UNCHANGED <<disk, files>>

InLoadFile ==
  /\ at = "LoadFile"
  /\ LoadStep
  /\ UNCHANGED <<behind, words, save, at, exit, run, files>>

\* Nobody looks behind a document that does not end in a letter.
LoadFileReturned ==
  /\ at = "LoadFile" /\ load.at = "returned"
  /\ \/ load.ret # SUCCESS_CODE /\ Exit(load.ret) /\ UNCHANGED behind
     \/ /\ load.ret = SUCCESS_CODE
        /\ at' = "WordList" /\ UNCHANGED exit
        /\ behind' \in IF Closed THEN {<<>>} ELSE Behind
  /\ UNCHANGED <<disk, load, words, save, run, files>>

\* WordList ends the process when it gets no memory.  (The baseline may besides overrun
\* its array on a document that ends in a letter.)
WordList ==
  /\ at = "WordList"
  /\ \/ words' \in Core!Listings /\ at' = "SaveWords" /\ UNCHANGED exit
     \/ Exit(ERR_SAFE_ALLOC_MEM) /\ UNCHANGED words
  /\ UNCHANGED <<disk, load, behind, save, run, files>>

InSaveWords ==
  /\ at = "SaveWords"
  /\ SaveStep
  /\ words_by' = IF OpenWords THEN run ELSE words_by
  /\ UNCHANGED <<disk, load, behind, words, at, exit, run, time_file>>

SaveWordsReturned ==
  /\ at = "SaveWords"
  /\ \/ /\ save.at = "exited"
        /\ Exit(ERR_MALLOC)
     \/ /\ save.at = "returned"
        /\ IF WordsFailed THEN Exit(save.ret) ELSE at' = "SaveTime" /\ UNCHANGED exit
  /\ UNCHANGED <<disk, load, behind, words, save, run, files>>

\* A word that reaches behind what malloc gave has overwritten memory of others: the run
\* ends by a signal or with any status it could end with, and what it still does to its
\* files is anything.
Stray ==
  /\ at = "SaveWords" /\ save.at = "looping" /\ curr_len > max_len + Slack
  /\ \E status \in {SUCCESS_CODE, ERR_SAVE_FILE_OPEN, SIGABRT, SIGSEGV} : Exit(status)
  /\ \E junk \in Behind : words_file' = words_file \o junk
  /\ \/ UNCHANGED time_file
     \/ \E complete \in BOOLEAN : time_file' = TimeFile(complete, save.hash)
  /\ save' = [save EXCEPT !.at = "exited"]
  /\ UNCHANGED <<disk, load, behind, words, run, words_by>>

OpenTime ==
  /\ at = "SaveTime"
  /\ \/ Exit(ERR_SAVE_FILE_OPEN) /\ UNCHANGED time_file
     \/ at' = "WritingTime" /\ time_file' = TimeFile(FALSE, 0) /\ UNCHANGED exit
  /\ UNCHANGED <<disk, load, behind, words, save, run, words_file, words_by>>

\* The line is written and the file closed.
CloseTime ==
  /\ at = "WritingTime"
  /\ time_file' = TimeFile(TRUE, save.hash)
  /\ at' = "Freeing"
  /\ UNCHANGED <<disk, load, behind, words, save, exit, run, words_file, words_by>>

\* doc and words are freed, and main returns.
MainReturns ==
  /\ at = "Freeing"
  /\ Exit(SUCCESS_CODE)
  /\ UNCHANGED <<disk, load, behind, words, save, run, files>>

\* The memory of the process is lost, with what stdio had not passed on of an open file.
Killed ==
  /\ at \notin {"idle", "ended"}
  /\ at' = "ended" /\ exit' = SIGKILLED
  /\ IF save.at \in {"opened", "looping"}
     THEN \E n \in 0 .. Len(words_file) : words_file' = SubSeq(words_file, 1, n)
     ELSE UNCHANGED words_file
  /\ NewMemory
  /\ UNCHANGED <<disk, run, words_by, time_file>>

InputRewritten == Rewrite /\ UNCHANGED <<behind, words, save, at, exit, run, files>>

Ended == at = "ended" /\ run = MaxRuns /\ UNCHANGED vars

Next ==
  \/ Launch \/ InLoadFile \/ LoadFileReturned \/ WordList
  \/ InSaveWords \/ SaveWordsReturned \/ Stray
  \/ OpenTime \/ CloseTime \/ MainReturns \/ Killed \/ InputRewritten \/ Ended

Spec == Init /\ [][Next]_vars

------------------------------------------------------------------------------
\* A run, the last one, ended with the exit status 0.
Succeeded == at = "ended" /\ run > 0 /\ exit = SUCCESS_CODE

\* An exit status of 0 means that the .time file is complete and of this run, and that
\* the .words file has the words of the document that was loaded, each once and in
\* order, one to a line, unless the document ends in a letter or has a word that overran
\* the buffer; no error code looks like 0 to the shell.
SuccessMeansSaved ==
  (Succeeded /\ Defined) =>
    /\ time_file = TimeFile(TRUE, save.hash)
    /\ words \in Core!Listings /\ Found = DocWords
    /\ words # <<>> => words_file = Lines[count]

\* A complete .time file vouches for the .words file: its hash can be computed from
\* the words there, whatever runs failed or were killed before or since, unless a later
\* run opened the .words file again.  The hash 0 says that there were no words.
TimeVouchesForWords ==
  (time_file.complete /\ time_file.defined /\ time_file.hash # 0) =>
    \/ words_by > time_file.of
    \/ time_file.hash = HashOf(words_file)

------------------------------------------------------------------------------
(* The inductive invariant.                                                 *)

\* Every variable holds what the code keeps in it; words of a document that does not
\* end in a letter have letters only.
TypeOK ==
  /\ LoadInv /\ load.doc_len < 2 ^ LenBits
  /\ behind \in Seq(1 .. 255)
  /\ words \in Seq(Seq(0 .. 255))
  /\ Closed => \A k \in 1 .. count : words[k] \in Seq(Letters)
  /\ SaveTypeOK
  /\ at \in {"idle", "LoadFile", "WordList", "SaveWords", "SaveTime", "WritingTime", "Freeing",
             "ended"}
  /\ exit \in 0 .. 255
  /\ run \in 0 .. MaxRuns
  /\ words_by \in 0 .. run
  /\ time_file \in
       [of : 0 .. run, complete : BOOLEAN, hash : 0 .. (Modulus - 1), defined : BOOLEAN]

Saved == save.at = "returned" /\ save.ret = SUCCESS_CODE

\* main is behind a call only if it succeeded.
CallsInOrder ==
  /\ at \in {"LoadFile", "WordList"} => save = NotSaved /\ words = <<>>
  /\ at \in {"WordList", "SaveWords", "SaveTime", "WritingTime", "Freeing"} => Loaded
  /\ at \in {"SaveWords", "SaveTime", "WritingTime", "Freeing"} => words \in Core!Listings
  /\ at \in {"SaveTime", "WritingTime", "Freeing"} => Saved
  /\ (Succeeded /\ Defined) => Loaded /\ words \in Core!Listings /\ Saved
  /\ save.at \in {"opened", "looping"} => at = "SaveWords" /\ words # <<>>

\* What SaveWords has put into the file, the buffer and the hash.
SaveProgress ==
  /\ save.at = "called" => save = NotSaved
  /\ save.at = "opened" => words_file = <<>> /\ save.temp = <<>> /\ save.i = 1
  /\ save.at = "looping" =>
       /\ words_file \o save.temp = Lines[save.i - 1]
       /\ Closed => save.hash = HashOf(words_file \o save.temp)
  /\ Saved => IF words = <<>> THEN save.hash = 0
              ELSE words_file = Lines[count] /\ (Closed => save.hash = HashOf(words_file))
  /\ OverrunAlone

\* Which run the result files are of.
FilesOf ==
  /\ save.at \in {"opened", "looping"} \/ (Saved /\ words # <<>>) => words_by = run
  /\ time_file.complete /\ time_file.of = run => at \in {"Freeing", "ended"}
  /\ at = "Freeing" \/ (Succeeded /\ Defined) => time_file = TimeFile(TRUE, save.hash)
  /\ TimeVouchesForWords

IInv == TypeOK /\ CallsInOrder /\ SaveProgress /\ FilesOf
==============================================================================
