---------------------------- MODULE MCLeoUTF8Scan ----------------------------
(* Memory for the scanning functions: a character or a defect at the edge  *)
(* of some row of the well-formedness table, and what may follow it - a    *)
(* NUL, a stray continuation byte, another character - within the length   *)
(* the caller gives or beyond it.                                          *)
EXTENDS LeoUTF8Scan

Good == { << 0 >>, << 65 >>, << 194, 128 >>, << 223, 191 >>,
          << 224, 160, 128 >>, << 237, 159, 191 >>, << 239, 191, 191 >>,
          << 240, 144, 128, 128 >>, << 244, 143, 191, 191 >> }
Bad  == { << 128 >>, << 193, 191 >>, << 194 >>, << 224, 159, 191 >>,
          << 237, 160, 128 >>, << 225, 128 >>, << 240, 143, 191, 191 >>,
          << 244, 144, 128, 128 >>, << 245, 128, 128, 128 >>,
          << 241, 191, 191, 65 >> }
After == { << >>, << 0 >>, << 65, 0 >>, << 191 >>, << 224, 160, 128 >> }
MCMemory == { c \o d : c \in Good \cup Bad, d \in After }

MCLongMax == 7
==============================================================================
