-------------------- MODULE MCLeoUTF8Foundation --------------------
(* Two variables and two addresses, so that freed memory is soon used again. *)
(* The byte strings                                                          *)
(* are an empty one, one with a NUL inside, one of four bytes that needs two *)
(* units, one cut off and an encoded surrogate; the strings hold a character *)
(* of three bytes and lone surrogates at the end, the start and between.     *)
EXTENDS LeoUTF8Foundation

MCInputs == {<< >>, << 65, 0, 66 >>, << 195, 182, 240, 159, 152, 128 >>,
             << 65, 195 >>, << 237, 160, 128 >>}
MCStrings == {<< 97, 776, 8364 >>, << 65, 55357 >>, << 56832, 65 >>,
              << 55357, 55357, 56832 >>}
MCLongMax == 100
==============================================================================
