------------------------------- MODULE LoadFile ------------------------------
(***************************************************************************)
(* LoadFile of src/driver/load_file.c, while another process may rewrite   *)
(* the file.  The size comes from ftell, the bytes from a later fread.     *)
(*                                                                         *)
(* The record load has the locals of LoadFile and what it does to main's   *)
(* doc and doc_len; a document is the bytes of buffer from doc on.         *)
(***************************************************************************)
EXTENDS Integers, Sequences, ErrorCodes

CONSTANTS
  Contents,     \* what may be in the file
  MaxRewrites,  \* bound on the times another process writes it
  LenBits,      \* the width of doc_len, 32 in the code
  CharSigned    \* whether char is signed, as for gcc on x86-64

ASSUME LoadFileAssumption ==
  /\ Contents \subseteq Seq(0 .. 255)
  /\ MaxRewrites \in Nat
  /\ LenBits \in Nat
  /\ CharSigned \in BOOLEAN

\* What the proofs need to know of a power of two.
ASSUME WidthAssumption == 2 ^ LenBits \in Nat \ {0}

VARIABLES
  content, rewrites,   \* the file and how often it was rewritten
  load

disk      == <<content, rewrites>>
load_vars == <<disk, load>>

Unseekable == -1   \* what ftell returns for a pipe
None       == -1   \* NULL

\* Before LoadFile is called.
NotLoaded ==
  [at        |-> "called",   \* or "opened", "sized", "allocated", "read", "returned"
   ret       |-> SUCCESS_CODE,
   is_open   |-> FALSE,      \* file is open
   file_size |-> 0,
   is_live   |-> FALSE,      \* the buffer is allocated
   buffer    |-> <<>>,       \* the bytes read into it
   doc       |-> None,       \* *doc, as an offset into the buffer
   doc_len   |-> 0]

\* A byte as the C code sees it through a char.
Char(byte) == IF CharSigned /\ byte > 127 THEN byte - 256 ELSE byte

BOM == <<239, 187, 191>>

\* A faulty test for the byte-order mark that compares the bytes themselves.
HasBom_bytes(b, len) == len >= 3 /\ \A k \in 1 .. 3 : b[k] = BOM[k]

HasBom(b, len) == len >= 3 /\ \A k \in 1 .. 3 : Char(b[k]) = BOM[k]

\* A faulty test that takes what there is.
ShortRead_zero(bytes_read) == bytes_read = 0 /\ load.file_size > 0

ShortRead(bytes_read) == bytes_read # load.file_size

AsLength(n) == n % 2 ^ LenBits

\* An error: the file is closed and the buffer, if there is one, freed.
Fail(f, code) == [f EXCEPT !.at = "returned", !.ret = code, !.is_open = FALSE, !.is_live = FALSE]

------------------------------------------------------------------------------
LoadInit == content \in Contents /\ rewrites = 0 /\ load = NotLoaded

\* Another process writes the file.
Rewrite ==
  /\ rewrites < MaxRewrites
  /\ content' \in Contents
  /\ rewrites' = rewrites + 1
  /\ UNCHANGED load

Open ==
  /\ load.at = "called"
  /\ \/ load' = Fail(load, ERR_FILENAME_LEN_EXCEED)
     \/ load' = Fail(load, ERR_OPEN_FILE)
     \/ load' = [load EXCEPT !.at = "opened", !.is_open = TRUE]
  /\ UNCHANGED disk

Size ==
  /\ load.at = "opened"
  /\ \E n \in {Len(content), Unseekable} :
       load' = [load EXCEPT !.at = "sized", !.file_size = n]
  /\ UNCHANGED disk

\* No buffer has the size (size_t)-1.
AllocateDoc ==
  /\ load.at = "sized"
  /\ \/ load' = Fail(load, ERR_MALLOC)
     \/ /\ load.file_size >= 0
        /\ load' = [load EXCEPT !.at = "allocated", !.is_live = TRUE, !.doc = 0]
  /\ UNCHANGED disk

\* fread fills the buffer as far as the file goes now; a read error stops it earlier.
Read ==
  /\ load.at = "allocated"
  /\ \E n \in 0 .. load.file_size :
       LET filled == [load EXCEPT !.buffer = SubSeq(content, 1, n)]
       IN  /\ n <= Len(content)
           /\ load' = IF ShortRead(n) THEN Fail(filled, ERR_READ_FILE)
                      ELSE [filled EXCEPT !.at = "read", !.doc_len = AsLength(n)]
  /\ UNCHANGED disk

\* A byte-order mark is skipped and the file closed.
CloseFile ==
  /\ load.at = "read"
  /\ LET skipped == IF HasBom(load.buffer, load.doc_len) THEN 3 ELSE 0
     IN  load' = [load EXCEPT !.at = "returned", !.is_open = FALSE,
                              !.doc = @ + skipped, !.doc_len = @ - skipped]
  /\ UNCHANGED disk

LoadStep == Open \/ Size \/ AllocateDoc \/ Read \/ CloseFile

\* A call of LoadFile by itself.
LoadSpec == LoadInit /\ [][LoadStep \/ Rewrite]_load_vars

------------------------------------------------------------------------------
Frame ==
  [at : {"called", "opened", "sized", "allocated", "read", "returned"},
   ret : {SUCCESS_CODE, ERR_FILENAME_LEN_EXCEED, ERR_OPEN_FILE, ERR_MALLOC, ERR_READ_FILE},
   is_open : BOOLEAN, file_size : Nat \cup {Unseekable}, is_live : BOOLEAN,
   buffer : Seq(0 .. 255), doc : Nat \cup {None}, doc_len : Nat]

LoadTypeOK == content \in Contents /\ rewrites \in 0 .. MaxRewrites /\ load \in Frame

Loaded == load.at = "returned" /\ load.ret = SUCCESS_CODE

\* On every way out the file is closed; the buffer is freed after an error, and
\* without one *doc is what malloc returned, so that main can free it.
ResourcesOwned ==
  load.at = "returned" =>
    /\ ~load.is_open
    /\ load.is_live <=> Loaded
    /\ Loaded => load.doc = 0

\* WordList is handed bytes that were read, all of them initialized, however another
\* process rewrites the file between ftell and fread; a file of less than 4 GiB is
\* handed on to its end.
DocWasRead ==
  Loaded =>
    /\ Len(load.buffer) = load.file_size
    /\ load.doc + load.doc_len <= Len(load.buffer)
    /\ load.file_size < 2 ^ LenBits => load.doc + load.doc_len = load.file_size

------------------------------------------------------------------------------
(* The inductive invariant.                                                 *)

\* What is owned, and what is known of the buffer, at each point; only a char that is
\* not signed lets LoadFile move *doc.
Progress ==
  /\ load.is_open <=> load.at \in {"opened", "sized", "allocated", "read"}
  /\ load.is_live <=> (load.at \in {"allocated", "read"} \/ Loaded)
  /\ load.at # "returned" => load.ret = SUCCESS_CODE
  /\ load.at \in {"allocated", "read"} => load.file_size >= 0 /\ load.doc = 0
  /\ (load.at = "read" \/ Loaded) =>
       /\ Len(load.buffer) = load.file_size
       /\ load.doc >= 0 /\ load.doc + load.doc_len = AsLength(load.file_size)
       /\ CharSigned => load.doc = 0

LoadInv == LoadTypeOK /\ Progress
==============================================================================
