------------------------------ MODULE Utf8Text -------------------------------
(* Byte strings as texts: the characters utf8proc_iterate finds in one, and *)
(* the byte string that encodes given characters.                           *)
EXTENDS Utf8Codec, SequencesExt

\* The characters up to the first defect.
Accepted(s, p) == p < Len(s) /\ Iterate(s, p, Len(s)).step > 0
Characters(s) ==
    LET from[p \in 0 .. Len(s)] ==
            IF Accepted(s, p)
            THEN LET c == Iterate(s, p, Len(s)) IN << c.dst >> \o from[p + c.step]
            ELSE << >>
    IN  from[0]

Encoding(cs)  == FlattenSeq([i \in 1 .. Len(cs) |-> EncodeChar(cs[i])])
WellFormed(s) == Encoding(Characters(s)) = s
==============================================================================
