----------------------------- MODULE MCWordList ------------------------------
(* WordList on every document of up to six bytes over two letters, one other
   separator and NUL; what follows a document in memory is a NUL, or a letter into which
   its last word runs on. *)
EXTENDS WordList

MCLetters    == {97, 98}
MCSeparators == {32}
MCFollowing  == { <<0>>, <<98, 0>> }
MCMaxLen     == 6
==============================================================================
