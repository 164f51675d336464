---------------------------- MODULE LeoUTF8Status ----------------------------
(***************************************************************************)
(* LeoUTF8Status and the two conversions at the border between LeoUTF8     *)
(* (size_t lengths, LeoUTF8Status) and utf8proc (signed lengths, negative  *)
(* error codes).                                                           *)
(***************************************************************************)
EXTENDS Utf8procAPI

OK        == "LEO_UTF8_OK"
INVALID   == "LEO_UTF8_INVALID"
NO_MEMORY == "LEO_UTF8_NO_MEMORY"
ERROR     == "LEO_UTF8_ERROR"
Status    == {OK, INVALID, NO_MEMORY, ERROR}

\* Mutant: every error of the engine is taken for malformed text.
StatusAlwaysInvalid(rc) == IF rc >= 0 THEN OK ELSE INVALID

LeoUTF8StatusFromUtf8proc(rc) ==
    CASE rc >= 0                         -> OK
      [] rc = UTF8PROC_ERROR_NOMEM       -> NO_MEMORY
      [] rc = UTF8PROC_ERROR_INVALIDUTF8 -> INVALID
      [] OTHER                           -> ERROR

\* A length utf8proc can represent: LeoUTF8ToUtf8procLength answers
\* LEO_UTF8_ERROR for any other.
FitsUtf8procLength(length, longMax) == length <= longMax
==============================================================================
