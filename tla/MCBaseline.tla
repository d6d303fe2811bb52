------------------------------ MODULE MCBaseline -----------------------------
(* Baseline on every document of up to six bytes over two letters, one other
   separator and NUL. *)
EXTENDS Baseline

MCLetters    == {97, 98}
MCSeparators == {32}
MCMaxLen     == 6
==============================================================================
