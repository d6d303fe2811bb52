----------------------------- MODULE ErrorCodes ------------------------------
(* The exit codes of the program, from src/include/error_codes.h. *)

SUCCESS_CODE            == 0
ERR_FILENAME_LEN_EXCEED == 101
ERR_OPEN_FILE           == 102
ERR_MALLOC              == 103
ERR_READ_FILE           == 104
ERR_SAVE_FILE_OPEN      == 151
ERR_SAFE_ALLOC_MEM      == 301
==============================================================================
