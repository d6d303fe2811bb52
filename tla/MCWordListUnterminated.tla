----------------------- MODULE MCWordListUnterminated ------------------------
(* WordList on documents whose last word may run into what follows the buffer:
   malloc(doc_len) leaves it open whether that is a NUL or a letter. *)
EXTENDS WordList

MCLetters    == {97, 98}
MCSeparators == {32}
MCFollowing  == { <<0>>, <<98, 0>> }
MCMaxLen     == 4
==============================================================================
