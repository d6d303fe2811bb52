------------------------------ MODULE MCDriver -------------------------------
(* Three runs of the program over input files of up to nine bytes, which another
   process may write twice, with a doc_len of three bits and a write buffer of three bytes:
   nothing; "b a b ", whose words fill the buffer to one byte behind its end;
   "b abab ", with a word that is longer than the buffer by as much as malloc allows;
   "b ba", the end of which depends on the memory behind it, a line feed or so many
   letters that its word overruns what malloc gave as well; a byte-order mark and a word;
   nine bytes, one of which is looked at. *)
EXTENDS Driver, Bitwise

MCContents ==
  { <<>>,
    <<98, 32, 97, 32, 98, 32>>,
    <<98, 32, 97, 98, 97, 98, 32>>,
    <<98, 32, 98, 97>>,
    <<239, 187, 191, 97, 32>>,
    <<32, 97, 32, 98, 32, 97, 98, 32, 98>> }
MCBehind  == { <<10>>, <<97, 97, 97>> }
MCLetters == {97, 98}
MCXor(a, b) == a ^^ b
==============================================================================
