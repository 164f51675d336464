----------------------------- MODULE Utf8procAPI -----------------------------
(* What LeoUTF8 and utf8proc exchange: option sets and error codes.         *)
EXTENDS Integers

\* The option sets passed to utf8proc_map, UTF8PROC_STABLE apart.
COMPOSE   == "UTF8PROC_COMPOSE"
DECOMPOSE == "UTF8PROC_DECOMPOSE"
CASEFOLD  == "UTF8PROC_CASEFOLD"
Options   == {COMPOSE, DECOMPOSE, CASEFOLD}

\* The error codes utf8proc answers such calls with.
UTF8PROC_ERROR_NOMEM       == -1
UTF8PROC_ERROR_OVERFLOW    == -2
UTF8PROC_ERROR_INVALIDUTF8 == -3
==============================================================================
