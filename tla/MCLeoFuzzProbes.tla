--------------------------- MODULE MCLeoFuzzProbes ---------------------------
(* Case files of up to three pieces, in a line buffer with room for three    *)
(* bytes of input and two that are expected; C4 stands for a byte string     *)
(* whose transform is longer, FF for a malformed one.                        *)
EXTENDS LeoFuzzProbes

Line(key, text) == Prefix[key] \o text \o << NEWLINE >>

\* 41, C4, FF, 414, with blanks, with junk behind a NUL, nothing; 41, z1, one
\* cut in the middle, one that fills the buffer so that the next key follows, one
\* that a key cut in two follows, nothing.  A line without a key, and one that
\* fills the buffer.
MCPieces ==
    {Line("input", << 52, 49 >>), Line("input", << 67, 52 >>),
     Line("input", << 102, 70 >>), Line("input", << 52, 49, 52 >>),
     Line("input", << 32, 52, 9, 49, 13 >>), Line("input", << 52, 49, NUL, 122 >>),
     Line("input", << >>),
     Line("expected", << 52, 49 >>), Line("expected", << 122, 49 >>),
     Line("expected", << 52, 49, 99, 67, 52, 49 >>),
     Prefix.expected \o << 52, 49, 67, 67 >>, Prefix.expected \o << 52, 49 >>,
     Line("expected", << >>),
     << 122, NEWLINE >>, [i \in 1 .. LineSize - 1 |-> 122]}
MCCaseFiles == {FlattenSeq(pieces) : pieces \in BoundedSeq(MCPieces, 3)}
MCInputs    == {<< >>, << 65, 196 >>, << 65, 255 >>}
MCTransform(bytes) ==
    IF \E i \in DOMAIN bytes : bytes[i] = 255 THEN NULL
    ELSE FlattenSeq([i \in DOMAIN bytes |->
                       IF bytes[i] = 196 THEN << 65, 204 >> ELSE << bytes[i] >>])
==============================================================================
