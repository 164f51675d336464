------------------------------ MODULE Utf8Codec ------------------------------
(***************************************************************************)
(* The UTF-8 decoder and encoder every LeoUTF8 operation rests on:         *)
(* utf8proc_iterate and utf8proc_encode_char.  Pure operators, no state.   *)
(* A byte string is a sequence over Byte; a C pointer into it is a 0-based *)
(* offset, so that the C expression s[p + i] is At(s, p + i).  The shifts  *)
(* and masks of the C code are the arithmetic they compute on their        *)
(* operands' ranges:  x >> 6 is x \div 64,  x & 0x3f is x % 64,  and `or`  *)
(* of disjoint bit fields is +.                                            *)
(***************************************************************************)
EXTENDS Utf8procAPI, Sequences

Between(lo, x, hi) == lo <= x /\ x <= hi

Byte      == 0 .. 255
CodePoint == {uc \in Nat : uc <= 1114111}          \* 0 .. 0x10ffff
Scalar    == {uc \in CodePoint : ~ Between(55296, uc, 57343)}
                                   \* utf8proc_codepoint_valid: no surrogate

At(s, p)  == s[p + 1]
IsCont(b) == b \div 64 = 2                         \* (b & 0xc0) == 0x80

-----------------------------------------------------------------------------
(* Decoding.  A result is the return value and the value left in *dst.     *)

Decoded(step, uc) == [step |-> step, dst |-> uc]
Rejected          == Decoded(UTF8PROC_ERROR_INVALIDUTF8, -1)

\* The number of bytes the lead byte calls for; 0 when no sequence starts
\* with it (continuation bytes, 0xc0, 0xc1, 0xf5 and above).
SequenceLength(b) ==
    CASE b < 128              -> 1
      [] Between(194, b, 223) -> 2
      [] Between(224, b, 239) -> 3
      [] Between(240, b, 244) -> 4
      [] OTHER                -> 0

\* Mutant: the continuation bytes are looked for in memory, not before `end`.
ContinuationsAnywhere(s, p, end, n) ==
    /\ p + n <= Len(s)
    /\ \A i \in 1 .. 3 : i < n => IsCont(At(s, p + i))

\* n - 1 continuation bytes follow the lead byte at p, all before `end`.
ContinuationsPresent(s, p, end, n) ==
    /\ p + n <= end
    /\ \A i \in 1 .. 3 : i < n => IsCont(At(s, p + i))

Low6(b) == b % 64

Payload(s, p, n) ==
    CASE n = 1 -> At(s, p)
      [] n = 2 -> (At(s, p) % 32) * 64 + Low6(At(s, p + 1))
      [] n = 3 -> (At(s, p) % 16) * 4096 + Low6(At(s, p + 1)) * 64
                  + Low6(At(s, p + 2))
      [] n = 4 -> (At(s, p) % 8) * 262144 + Low6(At(s, p + 1)) * 4096
                  + Low6(At(s, p + 2)) * 64 + Low6(At(s, p + 3))

\* Mutant: surrogates are let through.
SurrogatesAllowed(s, p, n) ==
    /\ n = 3 => Payload(s, p, 3) >= 2048
    /\ n = 4 => /\ At(s, p) = 240 => At(s, p + 1) >= 144
                /\ At(s, p) = 244 => At(s, p + 1) <= 143

\* Mutant: the first three-byte character is taken for an overlong form.
FirstOfThreeRefused(s, p, n) ==
    /\ n = 3 => /\ At(s, p) = 237 => At(s, p + 1) <= 159
                /\ Payload(s, p, 3) > 2048
    /\ n = 4 => /\ At(s, p) = 240 => At(s, p + 1) >= 144
                /\ At(s, p) = 244 => At(s, p + 1) <= 143

\* The range checks made beyond the continuation bytes: surrogates (0xed) and
\* overlong forms of three bytes, overlong forms (0xf0) and values above
\* 0x10ffff (0xf4) of four.
PayloadAllowed(s, p, n) ==
    /\ n = 3 => /\ At(s, p) = 237 => At(s, p + 1) <= 159
                /\ Payload(s, p, 3) >= 2048
    /\ n = 4 => /\ At(s, p) = 240 => At(s, p + 1) >= 144
                /\ At(s, p) = 244 => At(s, p + 1) <= 143

\* utf8proc_iterate(s + p, end - p, &uc) for end >= p: the bytes at and after
\* `end` are not the caller's and are never read.
Iterate(s, p, end) ==
    IF p = end THEN Decoded(0, -1)
    ELSE LET n == SequenceLength(At(s, p))
         IN  IF /\ n > 0
                /\ ContinuationsPresent(s, p, end, n)
                /\ PayloadAllowed(s, p, n)
             THEN Decoded(n, Payload(s, p, n))
             ELSE Rejected

-----------------------------------------------------------------------------
(* Encoding.                                                               *)

\* utf8proc_encode_char: the bytes written.  Surrogates are encoded, a value
\* outside CodePoint (utf8proc's -1 included) writes nothing.
EncodeChar(uc) ==
    CASE Between(0, uc, 127)         -> << uc >>
      [] Between(128, uc, 2047)      -> << 192 + uc \div 64, 128 + Low6(uc) >>
      [] Between(2048, uc, 65535)    -> << 224 + uc \div 4096,
                                           128 + Low6(uc \div 64),
                                           128 + Low6(uc) >>
      [] Between(65536, uc, 1114111) -> << 240 + uc \div 262144,
                                           128 + Low6(uc \div 4096),
                                           128 + Low6(uc \div 64),
                                           128 + Low6(uc) >>
      [] OTHER                       -> << >>

-----------------------------------------------------------------------------
(* What the properties say of byte strings.                                *)

\* The bytes bs stand at offset p of s.
Stands(s, p, bs) == \A i \in 1 .. Len(bs) : At(s, p + i - 1) = bs[i]

\* The bytes [from, to) of s are one scalar value's encoding.
Encodes(s, from, to) ==
    /\ to - from \in 1 .. 4
    /\ LET uc == Payload(s, from, to - from)
       IN  /\ uc \in Scalar
           /\ Len(EncodeChar(uc)) = to - from
           /\ Stands(s, from, EncodeChar(uc))
==============================================================================
