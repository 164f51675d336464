--------------------------- MODULE Utf8CodecProofs ---------------------------
(***************************************************************************)
(* The decoder and the encoder of Utf8Codec are inverse to each other, for *)
(* every scalar value and every byte string; so are the decoding and the   *)
(* encoding of whole texts.  Leaves name SMT because Zenon writes numerals *)
(* in unary.                                                               *)
(***************************************************************************)
EXTENDS Utf8Text, SequenceTheorems, TLAPS, WellFoundedInduction

\* Every nonempty set of natural numbers has a least element.
LEMMA Least ==
    ASSUME NEW T, T \subseteq Nat, T # {}
    PROVE  \E x \in T : \A y \in T : x <= y
<1> DEFINE R == {r \in Nat \X Nat : r[1] < r[2]}
<1>1. R = OpToRel(<, Nat)
  BY DEF OpToRel
<1>2. IsWellFoundedOn(R, Nat)
  BY <1>1, NatLessThanWellFounded
<1>3. PICK x \in T : \A y \in T : ~ (<< y, x >> \in R)
  BY <1>2, WFMin
<1>4. ASSUME NEW y \in T PROVE x <= y
  <2>1. << y, x >> \notin R
    BY <1>3
  <2>2. x \in Nat /\ y \in Nat
    OBVIOUS
  <2>3. ~ (y < x)
    BY <2>1, <2>2
  <2> QED
    BY SMT, <2>2, <2>3
<1> QED
  BY <1>4

\* A bounded one has a greatest.
LEMMA Greatest ==
    ASSUME NEW m \in Nat, NEW T \in SUBSET (0 .. m), T # {}
    PROVE  \E x \in T : \A y \in T : y <= x
<1> DEFINE U == {i \in 0 .. m : m - i \in T}
<1>0. ASSUME NEW y \in T PROVE m - y \in U
  <2>1. y \in 0 .. m
    OBVIOUS
  <2>2. m - y \in 0 .. m /\ m - (m - y) = y
    BY SMT, <2>1
  <2> QED
    BY Zenon, <2>2
<1>1. U \subseteq Nat /\ U # {}
  <2>1. PICK y \in T : TRUE
    OBVIOUS
  <2> QED
    BY <1>0, <2>1
<1>2. PICK i \in U : \A j \in U : i <= j
  BY <1>1, Least
<1>3. ASSUME NEW y \in T PROVE y <= m - i
  <2>0. y \in 0 .. m
    OBVIOUS
  <2>1. m - y \in U
    BY <1>0
  <2>2. i <= m - y
    BY <1>2, <2>1
  <2>3. i \in 0 .. m
    OBVIOUS
  <2> HIDE DEF U
  <2> QED
    BY SMT, <2>0, <2>2, <2>3
<1>4. m - i \in T
  OBVIOUS
<1> QED
  BY <1>3, <1>4

\* Induction up to n, of membership in a set.
LEMMA Climb ==
    ASSUME NEW n \in Nat, NEW B, 0 \in B, \A k \in 1 .. n : k - 1 \in B => k \in B
    PROVE  \A k \in 0 .. n : k \in B
<1> DEFINE Wrong == {k \in 0 .. n : k \notin B}
<1> SUFFICES ASSUME Wrong # {} PROVE FALSE
  OBVIOUS
<1>1. PICK k \in Wrong : \A j \in Wrong : k <= j
  <2>1. \A j \in 0 .. n : j \in Nat
    BY SMT
  <2>2. Wrong \subseteq Nat
    BY <2>1
  <2> QED
    BY <2>2, Least
<1>2. k \in 1 .. n /\ k - 1 \in 0 .. n /\ ~ (k <= k - 1)
  <2>1. k \in 0 .. n /\ k # 0
    OBVIOUS
  <2> QED
    BY SMT, <2>1
<1>3. k - 1 \in B
  BY <1>1, <1>2
<1> QED
  BY <1>2, <1>3

-----------------------------------------------------------------------------
Ascii        == 0 .. 127
Lead2        == 194 .. 223
Lead3        == 224 .. 239
Lead4        == 240 .. 244
Continuation == 128 .. 191

LEMMA StandsAt ==
    ASSUME NEW s, NEW p \in Nat, NEW bs, Stands(s, p, bs), Len(bs) \in 1 .. 4
    PROVE  /\ At(s, p) = bs[1]
           /\ Len(bs) >= 2 => At(s, p + 1) = bs[2]
           /\ Len(bs) >= 3 => At(s, p + 2) = bs[3]
           /\ Len(bs) >= 4 => At(s, p + 3) = bs[4]
BY SMT DEF Stands

\* What utf8proc_iterate returns once its three checks have passed.
LEMMA IterateAccepts ==
    ASSUME NEW s, NEW p \in Nat, NEW end \in Nat, NEW n \in 1 .. 4, p # end,
           SequenceLength(At(s, p)) = n, ContinuationsPresent(s, p, end, n),
           PayloadAllowed(s, p, n)
    PROVE  Iterate(s, p, end) = Decoded(n, Payload(s, p, n))
BY SMT DEF Iterate

LEMMA PayloadByLength ==
    ASSUME NEW s, NEW p
    PROVE  /\ Payload(s, p, 1) = At(s, p)
           /\ Payload(s, p, 2) = (At(s, p) % 32) * 64 + Low6(At(s, p + 1))
           /\ Payload(s, p, 3) = (At(s, p) % 16) * 4096
                                   + Low6(At(s, p + 1)) * 64
                                   + Low6(At(s, p + 2))
           /\ Payload(s, p, 4) = (At(s, p) % 8) * 262144
                                   + Low6(At(s, p + 1)) * 4096
                                   + Low6(At(s, p + 2)) * 64
                                   + Low6(At(s, p + 3))
<1>1. Payload(s, p, 1) = At(s, p)
  BY SMT DEF Payload
<1>2. Payload(s, p, 2) = (At(s, p) % 32) * 64 + Low6(At(s, p + 1))
  BY SMT DEF Payload
<1>3. Payload(s, p, 3) = (At(s, p) % 16) * 4096 + Low6(At(s, p + 1)) * 64
                           + Low6(At(s, p + 2))
  BY SMT DEF Payload
<1>4. Payload(s, p, 4) = (At(s, p) % 8) * 262144 + Low6(At(s, p + 1)) * 4096
                           + Low6(At(s, p + 2)) * 64 + Low6(At(s, p + 3))
  BY SMT DEF Payload
<1> QED
  BY SMT, <1>1, <1>2, <1>3, <1>4

LEMMA SequenceLengthByLead ==
    ASSUME NEW b \in Int
    PROVE  /\ b < 128         => SequenceLength(b) = 1
           /\ b \in 194 .. 223 => SequenceLength(b) = 2
           /\ b \in 224 .. 239 => SequenceLength(b) = 3
           /\ b \in 240 .. 244 => SequenceLength(b) = 4
BY SMT DEF SequenceLength, Between

\* The form utf8proc_encode_char gives a code point, by the range it is in.
LEMMA EncodeCharByRange ==
    ASSUME NEW uc \in Nat
    PROVE  /\ uc <= 127 => EncodeChar(uc) = << uc >>
           /\ Between(128, uc, 2047)
                => EncodeChar(uc) = << 192 + uc \div 64, 128 + Low6(uc) >>
           /\ Between(2048, uc, 65535)
                => EncodeChar(uc) = << 224 + uc \div 4096,
                                       128 + Low6(uc \div 64),
                                       128 + Low6(uc) >>
           /\ Between(65536, uc, 1114111)
                => EncodeChar(uc) = << 240 + uc \div 262144,
                                       128 + Low6(uc \div 4096),
                                       128 + Low6(uc \div 64),
                                       128 + Low6(uc) >>
<1>1. ASSUME uc <= 127 PROVE EncodeChar(uc) = << uc >>
  BY SMT, <1>1 DEF EncodeChar, Between
<1>2. ASSUME Between(128, uc, 2047)
      PROVE  EncodeChar(uc) = << 192 + uc \div 64, 128 + Low6(uc) >>
  BY SMT, <1>2 DEF EncodeChar, Between
<1>3. ASSUME Between(2048, uc, 65535)
      PROVE  EncodeChar(uc) = << 224 + uc \div 4096, 128 + Low6(uc \div 64),
                                 128 + Low6(uc) >>
  BY SMT, <1>3 DEF EncodeChar, Between
<1>4. ASSUME Between(65536, uc, 1114111)
      PROVE  EncodeChar(uc) = << 240 + uc \div 262144,
                                 128 + Low6(uc \div 4096),
                                 128 + Low6(uc \div 64), 128 + Low6(uc) >>
  BY SMT, <1>4 DEF EncodeChar, Between
<1> QED
  BY SMT, <1>1, <1>2, <1>3, <1>4

LEMMA ScalarRange ==
    ASSUME NEW uc \in Scalar
    PROVE  /\ uc \in Nat
           /\ \/ uc <= 127
              \/ Between(128, uc, 2047)
              \/ Between(2048, uc, 65535) /\ ~ Between(55296, uc, 57343)
              \/ Between(65536, uc, 1114111)
BY SMT DEF Scalar, CodePoint, Between

-----------------------------------------------------------------------------
\* Decoding what utf8proc_encode_char wrote gives the code point back, at any
\* offset of any buffer, reading no further than the encoding: no scalar value
\* is rejected, and none is mistaken for another.
THEOREM DecodeEncode ==
    ASSUME NEW uc \in Scalar, NEW s, NEW p \in Nat, NEW end \in Nat,
           Stands(s, p, EncodeChar(uc)), p + Len(EncodeChar(uc)) <= end
    PROVE  Iterate(s, p, end) = Decoded(Len(EncodeChar(uc)), uc)
<1> DEFINE e == EncodeChar(uc)
           n == Len(e)
<1>0. uc \in Nat
  BY ScalarRange
<1>1. /\ n \in 1 .. 4
      /\ SequenceLength(e[1]) = n
      /\ n >= 2 => IsCont(e[2])
      /\ n >= 3 => IsCont(e[3])
      /\ n = 4 => IsCont(e[4])
      /\ n = 1 => e[1] = uc
      /\ n = 2 => (e[1] % 32) * 64 + Low6(e[2]) = uc
      /\ n = 3 => /\ (e[1] % 16) * 4096 + Low6(e[2]) * 64 + Low6(e[3]) = uc
                  /\ e[1] = 237 => e[2] <= 159
                  /\ uc >= 2048
      /\ n = 4 => /\ (e[1] % 8) * 262144 + Low6(e[2]) * 4096
                        + Low6(e[3]) * 64 + Low6(e[4]) = uc
                  /\ e[1] = 240 => e[2] >= 144
                  /\ e[1] = 244 => e[2] <= 143
  <2> DEFINE y == Low6(uc \div 64)
             z == Low6(uc)
  <2>1. CASE uc <= 127
    <3>1. e = << uc >>
      BY SMT, <1>0, <2>1, EncodeCharByRange
    <3> HIDE DEF e
    <3> QED
      BY SMT, <1>0, <2>1, <3>1 DEF SequenceLength, Between
  <2>2. CASE Between(128, uc, 2047)
    <3> DEFINE b1 == 192 + uc \div 64
    <3>1. e = << b1, 128 + z >>
      BY SMT, <1>0, <2>2, EncodeCharByRange
    <3>2. /\ b1 \in 194 .. 223 /\ IsCont(128 + z)
          /\ (b1 % 32) * 64 + Low6(128 + z) = uc
      BY SMT, <1>0, <2>2 DEF Low6, IsCont, Between
    <3> HIDE DEF e, b1, z
    <3>3. SequenceLength(b1) = 2
      <4>1. b1 \in 194 .. 223
        BY <3>2
      <4> QED
        BY SMT, <4>1, SequenceLengthByLead
    <3> QED
      BY SMT, <3>1, <3>2, <3>3
  <2>3. CASE Between(2048, uc, 65535) /\ ~ Between(55296, uc, 57343)
    <3> DEFINE b1 == 224 + uc \div 4096
    <3>1. e = << b1, 128 + y, 128 + z >>
      BY SMT, <1>0, <2>3, EncodeCharByRange
    <3>2. /\ b1 \in 224 .. 239 /\ IsCont(128 + y) /\ IsCont(128 + z)
          /\ (b1 % 16) * 4096 + Low6(128 + y) * 64 + Low6(128 + z) = uc
          /\ b1 = 237 => 128 + y <= 159
          /\ uc >= 2048
      BY SMT, <1>0, <2>3 DEF Low6, IsCont, Between
    <3> HIDE DEF e, b1, y, z
    <3>3. SequenceLength(b1) = 3
      <4>1. b1 \in 224 .. 239
        BY <3>2
      <4> QED
        BY SMT, <4>1, SequenceLengthByLead
    <3> QED
      BY SMT, <3>1, <3>2, <3>3
  <2>4. CASE Between(65536, uc, 1114111)
    <3> DEFINE b1 == 240 + uc \div 262144
               x  == Low6(uc \div 4096)
    <3>1. e = << b1, 128 + x, 128 + y, 128 + z >>
      BY SMT, <1>0, <2>4, EncodeCharByRange
    <3>2. /\ b1 \in 240 .. 244
          /\ IsCont(128 + x) /\ IsCont(128 + y) /\ IsCont(128 + z)
          /\ b1 = 240 => 128 + x >= 144
          /\ b1 = 244 => 128 + x <= 143
      BY SMT, <1>0, <2>4 DEF Low6, IsCont, Between
    <3>3. (b1 % 8) * 262144 + Low6(128 + x) * 4096 + Low6(128 + y) * 64
            + Low6(128 + z) = uc
      BY SMT, <1>0, <2>4 DEF Low6, Between
    <3> HIDE DEF e, b1, x, y, z
    <3>4. SequenceLength(b1) = 4
      <4>1. b1 \in 240 .. 244
        BY <3>2
      <4> QED
        BY SMT, <4>1, SequenceLengthByLead
    <3> QED
      BY SMT, <3>1, <3>2, <3>3, <3>4
  <2> QED
    BY SMT, <2>1, <2>2, <2>3, <2>4, ScalarRange
<1>2. /\ p + n <= end /\ Stands(s, p, e)
  OBVIOUS
<1> HIDE DEF e
<1>3. /\ At(s, p) = e[1]
      /\ n >= 2 => At(s, p + 1) = e[2]
      /\ n >= 3 => At(s, p + 2) = e[3]
      /\ n >= 4 => At(s, p + 3) = e[4]
  BY SMT, <1>1, <1>2 DEF Stands
<1>4. n \in 1 .. 4 /\ SequenceLength(At(s, p)) = n
  BY SMT, <1>1, <1>3
<1>5. ContinuationsPresent(s, p, end, n)
  <2>1. \A i \in 1 .. 3 : i < n => IsCont(At(s, p + i))
    <3>1. n >= 2 => IsCont(At(s, p + 1))
      BY SMT, <1>1, <1>3
    <3>2. n >= 3 => IsCont(At(s, p + 2))
      BY SMT, <1>1, <1>3
    <3>3. n = 4 => IsCont(At(s, p + 3))
      BY SMT, <1>1, <1>3
    <3> QED
      BY SMT, <1>4, <3>1, <3>2, <3>3
  <2> QED
    BY SMT, <1>2, <2>1 DEF ContinuationsPresent
<1>6. Payload(s, p, n) = uc
  <2>1. CASE n = 1
    BY SMT, <2>1, <1>1, <1>3, PayloadByLength
  <2>2. CASE n = 2
    BY SMT, <2>2, <1>1, <1>3, PayloadByLength
  <2>3. CASE n = 3
    BY SMT, <2>3, <1>1, <1>3, PayloadByLength
  <2>4. CASE n = 4
    BY SMT, <2>4, <1>1, <1>3, PayloadByLength
  <2> QED
    BY SMT, <1>4, <2>1, <2>2, <2>3, <2>4
<1>7. PayloadAllowed(s, p, n)
  <2>1. ASSUME n = 3
        PROVE  (At(s, p) = 237 => At(s, p + 1) <= 159) /\ uc >= 2048
    BY SMT, <2>1, <1>1, <1>3
  <2>2. ASSUME n = 4
        PROVE  /\ At(s, p) = 240 => At(s, p + 1) >= 144
               /\ At(s, p) = 244 => At(s, p + 1) <= 143
    BY SMT, <2>2, <1>1, <1>3
  <2> QED
    <3>1. n = 3 => Payload(s, p, 3) >= 2048
      BY SMT, <1>6, <2>1
    <3> HIDE DEF n
    <3> QED
      BY SMT, <3>1, <2>1, <2>2 DEF PayloadAllowed
<1>8. p # end
  BY SMT, <1>2, <1>4
<1>9. Iterate(s, p, end) = Decoded(n, Payload(s, p, n))
  BY <1>4, <1>5, <1>7, <1>8, IterateAccepts
<1> QED
  BY <1>6, <1>9 DEF e

-----------------------------------------------------------------------------
\* A sequence of n bytes that passes the checks is the encoding of the value
\* it decodes to, which is a scalar value.
LEMMA PayloadOne ==
    ASSUME NEW s, NEW p, At(s, p) \in Ascii
    PROVE  /\ Payload(s, p, 1) \in Scalar
           /\ EncodeChar(Payload(s, p, 1)) = << At(s, p) >>
<1> DEFINE c == At(s, p)
<1>1. c \in Nat /\ c <= 127
  BY SMT DEF Ascii
<1> HIDE DEF c
<1>2. EncodeChar(c) = << c >>
  BY SMT, <1>1, EncodeCharByRange
<1>3. c \in Scalar
  BY SMT, <1>1 DEF Scalar, CodePoint, Between
<1>4. Payload(s, p, 1) = c
  BY SMT, PayloadByLength DEF c
<1> QED
  BY <1>2, <1>3, <1>4 DEF c

LEMMA PayloadTwo ==
    ASSUME NEW s, NEW p,
           At(s, p) \in Lead2, At(s, p + 1) \in Continuation
    PROVE  /\ Payload(s, p, 2) \in Scalar
           /\ EncodeChar(Payload(s, p, 2)) = << At(s, p), At(s, p + 1) >>
<1> DEFINE a == At(s, p)
           b == At(s, p + 1)
           c == Payload(s, p, 2)
<1>1. c = (a % 32) * 64 + Low6(b) /\ a \in 194 .. 223 /\ b \in 128 .. 191
  BY SMT, PayloadByLength DEF Lead2, Continuation
<1> HIDE DEF a, b, c
<1>2. /\ c \in Nat /\ Between(128, c, 2047)
      /\ 192 + c \div 64 = a
      /\ 128 + Low6(c) = b
  BY SMT, <1>1 DEF Between, Low6
<1>3. EncodeChar(c) = << a, b >>
  BY SMT, <1>2, EncodeCharByRange
<1>4. c \in Scalar
  BY SMT, <1>2 DEF Scalar, CodePoint, Between
<1> QED
  BY <1>3, <1>4 DEF a, b, c

LEMMA PayloadThree ==
    ASSUME NEW s, NEW p,
           At(s, p) \in Lead3,
           At(s, p + 1) \in Continuation, At(s, p + 2) \in Continuation,
           PayloadAllowed(s, p, 3)
    PROVE  /\ Payload(s, p, 3) \in Scalar
           /\ EncodeChar(Payload(s, p, 3))
                = << At(s, p), At(s, p + 1), At(s, p + 2) >>
<1> DEFINE a == At(s, p)
           b == At(s, p + 1)
           d == At(s, p + 2)
           c == Payload(s, p, 3)
<1>1. (a = 237 => b <= 159) /\ c >= 2048
  BY SMT DEF PayloadAllowed
<1>2. /\ c = (a % 16) * 4096 + Low6(b) * 64 + Low6(d)
      /\ a \in 224 .. 239 /\ b \in 128 .. 191 /\ d \in 128 .. 191
  BY SMT, PayloadByLength DEF Lead3, Continuation
<1> HIDE DEF a, b, d, c
<1>3. /\ c \in Nat /\ Between(2048, c, 65535) /\ ~ Between(55296, c, 57343)
      /\ 224 + c \div 4096 = a
      /\ 128 + Low6(c \div 64) = b
      /\ 128 + Low6(c) = d
  BY SMT, <1>1, <1>2 DEF Between, Low6
<1>4. EncodeChar(c)
        = << 224 + c \div 4096, 128 + Low6(c \div 64), 128 + Low6(c) >>
  BY SMT, <1>3, EncodeCharByRange
<1>5. c \in Scalar
  BY SMT, <1>3 DEF Scalar, CodePoint, Between
<1>6. EncodeChar(c) = << a, b, d >>
  BY SMT, <1>3, <1>4
<1> QED
  BY <1>5, <1>6 DEF a, b, d, c

LEMMA PayloadFour ==
    ASSUME NEW s, NEW p,
           At(s, p) \in Lead4,
           At(s, p + 1) \in Continuation, At(s, p + 2) \in Continuation,
           At(s, p + 3) \in Continuation,
           PayloadAllowed(s, p, 4)
    PROVE  /\ Payload(s, p, 4) \in Scalar
           /\ EncodeChar(Payload(s, p, 4))
                = << At(s, p), At(s, p + 1), At(s, p + 2), At(s, p + 3) >>
<1> DEFINE a == At(s, p)
           b == At(s, p + 1)
           d == At(s, p + 2)
           e == At(s, p + 3)
           c == Payload(s, p, 4)
           h == a - 240
           x == b - 128
           y == d - 128
           z == e - 128
<1>1. (a = 240 => b >= 144) /\ (a = 244 => b <= 143)
  BY SMT DEF PayloadAllowed
<1>2. c = (a % 8) * 262144 + Low6(b) * 4096 + Low6(d) * 64 + Low6(e)
  BY SMT, PayloadByLength
<1>3. /\ h \in 0 .. 4 /\ x \in 0 .. 63 /\ y \in 0 .. 63 /\ z \in 0 .. 63
      /\ a = 240 + h /\ b = 128 + x /\ d = 128 + y /\ e = 128 + z
  BY SMT DEF Lead4, Continuation
<1> HIDE DEF a, b, d, e, c, h, x, y, z
<1>4. /\ a % 8 = h /\ Low6(b) = x /\ Low6(d) = y /\ Low6(e) = z
      /\ (h = 0 => x >= 16) /\ (h = 4 => x <= 15)
  BY SMT, <1>1, <1>3 DEF Low6
<1>5. c = h * 262144 + x * 4096 + y * 64 + z
  BY SMT, <1>2, <1>3, <1>4
<1>6. c \in Nat /\ Between(65536, c, 1114111)
  BY SMT, <1>3, <1>4, <1>5 DEF Between
<1>7. /\ c \div 262144 = h
      /\ c \div 4096 = h * 64 + x
      /\ c \div 64 = h * 4096 + x * 64 + y
  BY SMT, <1>3, <1>5
<1>8. Low6(c) = z /\ Low6(c \div 64) = y /\ Low6(c \div 4096) = x
  BY SMT, <1>3, <1>5, <1>7 DEF Low6
<1>9. EncodeChar(c) = << 240 + c \div 262144, 128 + Low6(c \div 4096),
                         128 + Low6(c \div 64), 128 + Low6(c) >>
  BY SMT, <1>6, EncodeCharByRange
<1>10. c \in Scalar
  BY SMT, <1>6 DEF Scalar, CodePoint, Between
<1>11. EncodeChar(c) = << a, b, d, e >>
  BY SMT, <1>3, <1>7, <1>8, <1>9
<1> QED
  BY <1>10, <1>11 DEF a, b, d, e, c

LEMMA LeadBySequenceLength ==
    ASSUME NEW b \in Byte, SequenceLength(b) > 0
    PROVE  /\ SequenceLength(b) \in 1 .. 4
           /\ SequenceLength(b) = 1 => b \in Ascii
           /\ SequenceLength(b) = 2 => b \in Lead2
           /\ SequenceLength(b) = 3 => b \in Lead3
           /\ SequenceLength(b) = 4 => b \in Lead4
BY SMT DEF SequenceLength, Between, Byte, Ascii, Lead2, Lead3, Lead4

LEMMA ByteAt ==
    ASSUME NEW s \in Seq(Byte), NEW q \in Nat, q < Len(s)
    PROVE  At(s, q) \in Byte
<1>1. q + 1 \in 1 .. Len(s)
  BY SMT
<1>2. s[q + 1] \in Byte
  BY SMT, <1>1
<1> QED
  BY <1>2 DEF At

LEMMA ContinuationRange ==
    ASSUME NEW b \in Byte, IsCont(b)
    PROVE  b \in Continuation
BY SMT DEF IsCont, Byte, Continuation

\* Whatever utf8proc_iterate accepts, at any offset of any byte string, is the
\* encoding of one scalar value and nothing else: no overlong form, no
\* surrogate, no value above 0x10ffff, and no byte at or beyond the end of the
\* buffer is part of it.
THEOREM IterateSound ==
    ASSUME NEW s \in Seq(Byte), NEW end \in 0 .. Len(s), NEW p \in 0 .. end - 1,
           Iterate(s, p, end) # Rejected
    PROVE  LET r == Iterate(s, p, end)
           IN  /\ r.step \in 1 .. 4
               /\ p + r.step <= end
               /\ r.dst = Payload(s, p, r.step)
               /\ r.dst \in Scalar
               /\ Len(EncodeChar(r.dst)) = r.step
               /\ Stands(s, p, EncodeChar(r.dst))
<1> DEFINE n == SequenceLength(At(s, p))
           c == Payload(s, p, n)
<1>1. /\ n > 0
      /\ ContinuationsPresent(s, p, end, n)
      /\ PayloadAllowed(s, p, n)
      /\ Iterate(s, p, end) = Decoded(n, c)
  BY SMT DEF Iterate
<1>2. /\ n \in 1 .. 4
      /\ n = 1 => At(s, p) \in Ascii
      /\ n = 2 => At(s, p) \in Lead2
      /\ n = 3 => At(s, p) \in Lead3
      /\ n = 4 => At(s, p) \in Lead4
  <2>1. p \in Nat /\ p < Len(s)
    BY SMT
  <2> DEFINE b == At(s, p)
             k == SequenceLength(b)
  <2>2. b \in Byte
    BY <2>1, ByteAt
  <2>3. k > 0
    BY <1>1
  <2> HIDE DEF b
  <2>4. /\ k \in 1 .. 4
        /\ k = 1 => b \in Ascii
        /\ k = 2 => b \in Lead2
        /\ k = 3 => b \in Lead3
        /\ k = 4 => b \in Lead4
    BY Zenon, <2>2, <2>3, LeadBySequenceLength
  <2> QED
    BY <2>4 DEF b
<1> HIDE DEF n
<1>3. p + n <= end /\ \A i \in 1 .. 3 : i < n => IsCont(At(s, p + i))
  BY SMT, <1>1 DEF ContinuationsPresent
<1>4. ASSUME NEW i \in 1 .. 3, i < n PROVE At(s, p + i) \in Continuation
  <2> DEFINE b == At(s, p + i)
  <2>1. p + i \in Nat /\ p + i < Len(s)
    BY SMT, <1>2, <1>3, <1>4
  <2>2. b \in Byte
    BY <2>1, ByteAt
  <2>3. IsCont(b)
    BY <1>3, <1>4
  <2> HIDE DEF b
  <2>4. b \in Continuation
    BY Zenon, <2>2, <2>3, ContinuationRange
  <2> QED
    BY <2>4 DEF b
<1>5. c \in Scalar /\ Len(EncodeChar(c)) = n /\ Stands(s, p, EncodeChar(c))
  <2>1. CASE n = 1
    <3>1. c \in Scalar /\ EncodeChar(c) = << At(s, p) >>
      BY <2>1, <1>2, PayloadOne
    <3> HIDE DEF c
    <3> QED
      BY SMT, <2>1, <3>1 DEF Stands
  <2>2. CASE n = 2
    <3>1. At(s, p + 1) \in Continuation
      BY SMT, <2>2, <1>4
    <3>2. c \in Scalar /\ EncodeChar(c) = << At(s, p), At(s, p + 1) >>
      BY <2>2, <1>2, <3>1, PayloadTwo
    <3> HIDE DEF c
    <3> QED
      BY SMT, <2>2, <3>2 DEF Stands
  <2>3. CASE n = 3
    <3>1. At(s, p + 1) \in Continuation /\ At(s, p + 2) \in Continuation
      BY SMT, <2>3, <1>4
    <3>2. /\ c \in Scalar
          /\ EncodeChar(c) = << At(s, p), At(s, p + 1), At(s, p + 2) >>
      BY <2>3, <1>1, <1>2, <3>1, PayloadThree
    <3> HIDE DEF c
    <3> QED
      BY SMT, <2>3, <3>2 DEF Stands
  <2>4. CASE n = 4
    <3>1. /\ At(s, p + 1) \in Continuation
          /\ At(s, p + 2) \in Continuation
          /\ At(s, p + 3) \in Continuation
      BY SMT, <2>4, <1>4
    <3>2. /\ c \in Scalar
          /\ EncodeChar(c)
               = << At(s, p), At(s, p + 1), At(s, p + 2), At(s, p + 3) >>
      BY <2>4, <1>1, <1>2, <3>1, PayloadFour
    <3> HIDE DEF c
    <3> QED
      BY SMT, <2>4, <3>2 DEF Stands
  <2> QED
    BY SMT, <1>2, <2>1, <2>2, <2>3, <2>4
<1>6. c = Payload(s, p, n)
  OBVIOUS
<1> HIDE DEF c
<1>7. Iterate(s, p, end).step = n /\ Iterate(s, p, end).dst = c
  BY <1>1 DEF Decoded
<1> QED
  BY <1>2, <1>3, <1>5, <1>6, <1>7

-----------------------------------------------------------------------------
(* Texts: FlattenSeq, which both encodings of a text are made with.        *)

\* The equation of FlattenSeq's recursive function.
FlatAt(f, seqs, i) == IF i = 1 THEN seqs[i] ELSE f[i - 1] \o seqs[i]

Flat(f, seqs, n) == f = [i \in 1 .. n |-> FlatAt(f, seqs, i)]

LEMMA FlattenFlat ==
    ASSUME NEW seqs, Len(seqs) # 0
    PROVE  FlattenSeq(seqs) = (CHOOSE f : Flat(f, seqs, Len(seqs)))[Len(seqs)]
BY Zenon DEF FlattenSeq, Flat, FlatAt

LEMMA FlatExists ==
    ASSUME NEW seqs, NEW n \in Nat
    PROVE  \E f : Flat(f, seqs, n)
<1> DEFINE Without == {i \in Nat : ~ \E f : Flat(f, seqs, i)}
<1> SUFFICES ASSUME Without # {} PROVE FALSE
  OBVIOUS
<1>1. PICK k \in Without : \A j \in Without : k <= j
  <2>1. Without \subseteq Nat
    OBVIOUS
  <2> QED
    BY <2>1, Least
<1>2. k # 0
  <2> SUFFICES ASSUME k = 0 PROVE \E f : Flat(f, seqs, k)
    OBVIOUS
  <2> DEFINE f == [i \in 1 .. k |-> seqs[i]]
  <2>1. \A g, i : i \notin 1 .. k
    BY SMT
  <2>2. f = [i \in 1 .. k |-> FlatAt(f, seqs, i)]
    BY <2>1
  <2> QED
    BY <2>2 DEF Flat
<1>3. k - 1 \in Nat /\ ~ (k <= k - 1)
  BY SMT, <1>2
<1>4. PICK g : Flat(g, seqs, k - 1)
  BY <1>1, <1>3
<1> DEFINE f == [i \in 1 .. k |-> FlatAt(g, seqs, i)]
<1>5. ASSUME NEW i \in 1 .. k PROVE FlatAt(g, seqs, i) = FlatAt(f, seqs, i)
  <2>1. CASE i = 1
    BY <2>1 DEF FlatAt
  <2>2. CASE i # 1
    <3>1. i - 1 \in 1 .. k - 1 /\ i - 1 \in 1 .. k
      BY SMT, <2>2
    <3>2. g[i - 1] = FlatAt(g, seqs, i - 1)
      BY Zenon, <1>4, <3>1 DEF Flat
    <3>3. f[i - 1] = FlatAt(g, seqs, i - 1)
      BY Zenon, <3>1
    <3> HIDE DEF f
    <3> QED
      BY Zenon, <2>2, <3>2, <3>3 DEF FlatAt
  <2> QED
    BY <2>1, <2>2
<1>6. Flat(f, seqs, k)
  <2>1. f = [i \in 1 .. k |-> FlatAt(g, seqs, i)]
    OBVIOUS
  <2> HIDE DEF f
  <2> QED
    BY Zenon, <1>5, <2>1 DEF Flat
<1> QED
  BY <1>1, <1>6

\* One more piece leaves the solution for those before it alone.
LEMMA FlatAgree ==
    ASSUME NEW a, NEW b, NEW f, NEW g, NEW k \in Nat,
           Flat(f, a, k), Flat(g, b, k + 1), \A i \in 1 .. k : a[i] = b[i]
    PROVE  \A i \in 1 .. k : f[i] = g[i]
<1> DEFINE Wrong == {i \in 1 .. k : f[i] # g[i]}
<1> SUFFICES ASSUME Wrong # {} PROVE FALSE
  OBVIOUS
<1>1. PICK i \in Wrong : \A j \in Wrong : i <= j
  <2>1. \A i \in 1 .. k : i \in Nat
    BY SMT
  <2>2. Wrong \subseteq Nat
    BY <2>1
  <2> QED
    BY <2>2, Least
<1>2. i \in 1 .. k /\ f[i] # g[i]
  OBVIOUS
<1>3. i \in 1 .. k + 1
  BY SMT, <1>2
<1>4. f[i] = FlatAt(f, a, i) /\ g[i] = FlatAt(g, b, i)
  BY Zenon, <1>2, <1>3 DEF Flat
<1>5. i # 1 => f[i - 1] = g[i - 1]
  <2> SUFFICES ASSUME i # 1 PROVE f[i - 1] = g[i - 1]
    OBVIOUS
  <2>1. i - 1 \in 1 .. k /\ ~ (i <= i - 1)
    BY SMT, <1>2
  <2> QED
    BY <1>1, <2>1
<1> QED
  BY <1>2, <1>4, <1>5 DEF FlatAt

\* FlattenSeq, piece by piece.
LEMMA FlattenEmpty == FlattenSeq(<< >>) = << >>
BY DEF FlattenSeq

LEMMA FlattenAppend ==
    ASSUME NEW S, NEW seqs \in Seq(Seq(S)), NEW e \in Seq(S)
    PROVE  FlattenSeq(Append(seqs, e)) = FlattenSeq(seqs) \o e
<1> DEFINE n == Len(seqs)
           more == Append(seqs, e)
<1>1. /\ n \in Nat /\ Len(more) = n + 1 /\ n + 1 \in Nat /\ n + 1 # 0
      /\ \A i \in 1 .. n : more[i] = seqs[i]
      /\ more[n + 1] = e
      /\ n + 1 \in 1 .. n + 1
  BY SMT
<1> DEFINE g == CHOOSE h : Flat(h, more, n + 1)
<1>2. Flat(g, more, n + 1)
  BY Zenon, <1>1, FlatExists
<1>3. FlattenSeq(more) = g[n + 1]
  BY Zenon, <1>1, FlattenFlat
<1> HIDE DEF g, more, n
<1>4. g[n + 1] = FlatAt(g, more, n + 1)
  BY Zenon, <1>1, <1>2 DEF Flat
<1>5. CASE n = 0
  <2>1. g[n + 1] = e
    BY SMT, <1>1, <1>4, <1>5 DEF FlatAt
  <2>2. FlattenSeq(seqs) = << >>
    BY <1>5, FlattenEmpty DEF n
  <2> QED
    BY <1>3, <2>1, <2>2, ConcatEmptySeq DEF more
<1>6. CASE n # 0
  <2> DEFINE f == CHOOSE h : Flat(h, seqs, n)
  <2>1. Flat(f, seqs, n)
    BY Zenon, <1>1, FlatExists
  <2>2. FlattenSeq(seqs) = f[n]
    BY Zenon, <1>6, FlattenFlat DEF n
  <2> HIDE DEF f
  <2>3. f[n] = g[n]
    <3>1. n \in 1 .. n /\ n \in Nat
      BY SMT, <1>1, <1>6
    <3>2. \A i \in 1 .. n : seqs[i] = more[i]
      BY <1>1
    <3>3. \A i \in 1 .. n : f[i] = g[i]
      BY SMT, <1>2, <2>1, <3>1, <3>2, FlatAgree
    <3> QED
      BY <3>1, <3>3
  <2>4. n + 1 # 1 /\ (n + 1) - 1 = n
    BY SMT, <1>1, <1>6
  <2>5. g[n + 1] = g[n] \o e
    BY Zenon, <1>1, <1>4, <2>4 DEF FlatAt
  <2> QED
    BY <1>3, <2>2, <2>3, <2>5 DEF more
<1> QED
  BY <1>5, <1>6

\* The encoding of a text, character by character.
LEMMA ShortSeqs ==
    ASSUME NEW S, NEW a \in S, NEW b \in S, NEW c \in S, NEW d \in S
    PROVE  /\ << a >> \in Seq(S) /\ Len(<< a >>) \in 1 .. 2
           /\ << a, b >> \in Seq(S) /\ Len(<< a, b >>) \in 1 .. 2
           /\ << a, b, c >> \in Seq(S) /\ Len(<< a, b, c >>) \in 1 .. 4
           /\ << a, b, c, d >> \in Seq(S) /\ Len(<< a, b, c, d >>) \in 1 .. 4
BY SMT

LEMMA EncodeCharBytes ==
    ASSUME NEW c \in Scalar
    PROVE  EncodeChar(c) \in Seq(Byte) /\ Len(EncodeChar(c)) \in 1 .. 4
<1>1. c \in Nat /\ c <= 1114111
  BY SMT DEF Scalar, CodePoint
<1>2. Low6(c) \in 0 .. 63 /\ Low6(c \div 64) \in 0 .. 63 /\ Low6(c \div 4096) \in 0 .. 63
  BY SMT, <1>1 DEF Low6
<1>3. /\ 128 + Low6(c) \in Byte /\ 128 + Low6(c \div 64) \in Byte
      /\ 128 + Low6(c \div 4096) \in Byte
  BY SMT, <1>2 DEF Byte
<1>4. \A i \in 1 .. 2 : i \in 1 .. 4
  BY SMT
<1>5. CASE c <= 127
  <2>1. c \in Byte
    BY SMT, <1>1, <1>5 DEF Byte
  <2>2. EncodeChar(c) = << c >>
    BY SMT, <1>1, <1>5, EncodeCharByRange
  <2> QED
    BY <1>4, <2>1, <2>2, ShortSeqs
<1>6. CASE Between(128, c, 2047)
  <2>1. 192 + c \div 64 \in Byte
    BY SMT, <1>1, <1>6 DEF Byte, Between
  <2>2. EncodeChar(c) = << 192 + c \div 64, 128 + Low6(c) >>
    BY SMT, <1>1, <1>6, EncodeCharByRange
  <2> QED
    BY <1>3, <1>4, <2>1, <2>2, ShortSeqs
<1>7. CASE Between(2048, c, 65535)
  <2>1. 224 + c \div 4096 \in Byte
    BY SMT, <1>1, <1>7 DEF Byte, Between
  <2>2. EncodeChar(c) = << 224 + c \div 4096, 128 + Low6(c \div 64), 128 + Low6(c) >>
    BY SMT, <1>1, <1>7, EncodeCharByRange
  <2> QED
    BY <1>3, <2>1, <2>2, ShortSeqs
<1>8. CASE Between(65536, c, 1114111)
  <2>1. 240 + c \div 262144 \in Byte
    BY SMT, <1>1, <1>8 DEF Byte, Between
  <2>2. EncodeChar(c) = << 240 + c \div 262144, 128 + Low6(c \div 4096),
                           128 + Low6(c \div 64), 128 + Low6(c) >>
    BY SMT, <1>1, <1>8, EncodeCharByRange
  <2> QED
    BY <1>3, <2>1, <2>2, ShortSeqs
<1> QED
  BY SMT, <1>1, <1>5, <1>6, <1>7, <1>8 DEF Between

LEMMA EncodingEmpty == Encoding(<< >>) = << >>
<1>1. \A i : i \notin 1 .. 0
  BY SMT
<1>2. Len(<< >>) = 0
  BY SMT
<1>3. [i \in 1 .. 0 |-> EncodeChar(<< >>[i])] = << >>
  BY SMT, <1>1
<1> QED
  BY <1>2, <1>3, FlattenEmpty DEF Encoding

LEMMA PiecesAppend ==
    ASSUME NEW cs \in Seq(Scalar), NEW c \in Scalar
    PROVE  /\ [i \in 1 .. Len(cs) |-> EncodeChar(cs[i])] \in Seq(Seq(Byte))
           /\ [i \in 1 .. Len(Append(cs, c)) |-> EncodeChar(Append(cs, c)[i])]
                = Append([i \in 1 .. Len(cs) |-> EncodeChar(cs[i])], EncodeChar(c))
<1> DEFINE n == Len(cs)
<1>1. n \in Nat /\ Len(Append(cs, c)) = n + 1
      /\ (\A i \in 1 .. n : cs[i] \in Scalar /\ Append(cs, c)[i] = cs[i])
      /\ Append(cs, c)[n + 1] = c
      /\ \A i \in 1 .. n + 1 : i \in 1 .. n \/ i = n + 1
  BY SMT
<1> HIDE DEF n
<1>2. [i \in 1 .. n |-> EncodeChar(cs[i])] \in Seq(Seq(Byte))
  BY <1>1, EncodeCharBytes
<1>3. [i \in 1 .. n + 1 |-> EncodeChar(Append(cs, c)[i])]
        = Append([i \in 1 .. n |-> EncodeChar(cs[i])], EncodeChar(c))
  BY SMT, <1>1
<1> QED
  BY <1>1, <1>2, <1>3 DEF n

LEMMA EncodingAppend ==
    ASSUME NEW cs \in Seq(Scalar), NEW c \in Scalar
    PROVE  Encoding(Append(cs, c)) = Encoding(cs) \o EncodeChar(c)
<1>1. EncodeChar(c) \in Seq(Byte)
  BY EncodeCharBytes
<1> QED
  BY <1>1, PiecesAppend, FlattenAppend DEF Encoding

LEMMA PrefixText ==
    ASSUME NEW cs \in Seq(Scalar), NEW k \in 1 .. Len(cs)
    PROVE  /\ SubSeq(cs, 1, k - 1) \in Seq(Scalar)
           /\ cs[k] \in Scalar
           /\ SubSeq(cs, 1, k) = Append(SubSeq(cs, 1, k - 1), cs[k])
<1>1. /\ Len(cs) \in Nat /\ 1 \in 1 .. Len(cs) /\ k \in 1 .. Len(cs)
      /\ 1 \in Int /\ k - 1 \in Int
      /\ \A i \in 1 .. k - 1 : i \in 1 .. Len(cs)
  BY SMT
<1>2. \A i \in 1 .. Len(cs) : cs[i] \in Scalar
  BY ElementOfSeq
<1>3. SubSeq(cs, 1, k - 1) \in Seq(Scalar)
  BY <1>1, <1>2, SubSeqProperties
<1>4. SubSeq(cs, 1, k) = SubSeq(cs, 1, k - 1) \o << cs[k] >>
  BY <1>1, SubSeqRecursiveSecond
<1> QED
  BY <1>2, <1>3, <1>4, AppendIsConcat

LEMMA PrefixEmpty ==
    ASSUME NEW cs \in Seq(Scalar)
    PROVE  SubSeq(cs, 1, 0) = << >> /\ SubSeq(cs, 1, Len(cs)) = cs
<1>1. 0 < 1 /\ 1 \in Int /\ 0 \in Int
  BY SMT
<1> QED
  BY <1>1, SubSeqEmpty, SubSeqFull

LEMMA TextTypes ==
    ASSUME NEW cs \in Seq(Scalar)
    PROVE  Encoding(cs) \in Seq(Byte)
<1> DEFINE B == {k \in 0 .. Len(cs) : Encoding(SubSeq(cs, 1, k)) \in Seq(Byte)}
<1>1. Len(cs) \in Nat /\ 0 \in 0 .. Len(cs) /\ Len(cs) \in 0 .. Len(cs)
  BY SMT
<1>2. 0 \in B
  <2>1. Encoding(SubSeq(cs, 1, 0)) = << >>
    BY PrefixEmpty, EncodingEmpty
  <2>2. << >> \in Seq(Byte)
    BY EmptySeq
  <2> QED
    BY <1>1, <2>1, <2>2
<1>3. ASSUME NEW k \in 1 .. Len(cs), k - 1 \in B PROVE k \in B
  <2>1. /\ SubSeq(cs, 1, k - 1) \in Seq(Scalar)
        /\ cs[k] \in Scalar
        /\ SubSeq(cs, 1, k) = Append(SubSeq(cs, 1, k - 1), cs[k])
    BY PrefixText
  <2>2. Encoding(SubSeq(cs, 1, k))
             = Encoding(SubSeq(cs, 1, k - 1)) \o EncodeChar(cs[k])
    BY <2>1, EncodingAppend
  <2>3. EncodeChar(cs[k]) \in Seq(Byte)
    BY <2>1, EncodeCharBytes
  <2>4. k \in 0 .. Len(cs)
    BY SMT
  <2>5. Encoding(SubSeq(cs, 1, k - 1)) \in Seq(Byte)
    BY <1>3
  <2>6. Encoding(SubSeq(cs, 1, k)) \in Seq(Byte)
    BY <2>2, <2>3, <2>5, ConcatProperties
  <2> QED
    BY <2>4, <2>6
<1>4. \A k \in 0 .. Len(cs) : k \in B
  <2> HIDE DEF B
  <2> QED
    BY <1>1, <1>2, <1>3, Climb
<1>5. Len(cs) \in B
  BY <1>1, <1>4
<1> QED
  BY <1>5, PrefixEmpty

LEMMA StandsAfter ==
    ASSUME NEW s \in Seq(Byte), NEW t \in Seq(Byte)
    PROVE  Stands(s \o t, Len(s), t)
<1>1. ASSUME NEW i \in 1 .. Len(t) PROVE At(s \o t, Len(s) + i - 1) = t[i]
  <2>1. /\ Len(s) + i \in 1 .. Len(s) + Len(t) /\ ~ (Len(s) + i <= Len(s))
        /\ (Len(s) + i) - Len(s) = i /\ Len(s) + i - 1 + 1 = Len(s) + i
    BY SMT
  <2>2. (s \o t)[Len(s) + i] = t[i]
    BY <2>1, ConcatProperties
  <2> QED
    BY <2>1, <2>2 DEF At
<1> QED
  BY <1>1 DEF Stands

LEMMA StandsBefore ==
    ASSUME NEW s \in Seq(Byte), NEW t \in Seq(Byte), NEW bs \in Seq(Byte),
           NEW q \in Nat, q + Len(bs) <= Len(s), Stands(s, q, bs)
    PROVE  Stands(s \o t, q, bs)
<1>1. ASSUME NEW i \in 1 .. Len(bs) PROVE At(s \o t, q + i - 1) = bs[i]
  <2>1. /\ q + i \in 1 .. Len(s) + Len(t) /\ q + i <= Len(s)
        /\ q + i - 1 + 1 = q + i
    BY SMT
  <2>2. (s \o t)[q + i] = s[q + i]
    BY <2>1, ConcatProperties
  <2>3. At(s, q + i - 1) = bs[i]
    BY DEF Stands
  <2> QED
    BY <2>1, <2>2, <2>3 DEF At
<1> QED
  BY <1>1 DEF Stands

\* Where the first k characters end in the bytes of a text.
Offset(cs, k) == Len(Encoding(SubSeq(cs, 1, k)))

LEMMA OffsetStep ==
    ASSUME NEW cs \in Seq(Scalar), NEW k \in 1 .. Len(cs)
    PROVE  /\ Encoding(SubSeq(cs, 1, k - 1)) \in Seq(Byte)
           /\ EncodeChar(cs[k]) \in Seq(Byte) /\ cs[k] \in Scalar
           /\ Encoding(SubSeq(cs, 1, k))
                = Encoding(SubSeq(cs, 1, k - 1)) \o EncodeChar(cs[k])
           /\ Offset(cs, k - 1) \in Nat /\ Offset(cs, k) \in Nat
           /\ Offset(cs, k) = Offset(cs, k - 1) + Len(EncodeChar(cs[k]))
<1>1. /\ SubSeq(cs, 1, k - 1) \in Seq(Scalar)
      /\ cs[k] \in Scalar
      /\ SubSeq(cs, 1, k) = Append(SubSeq(cs, 1, k - 1), cs[k])
  BY PrefixText
<1>2. Encoding(SubSeq(cs, 1, k))
        = Encoding(SubSeq(cs, 1, k - 1)) \o EncodeChar(cs[k])
  BY <1>1, EncodingAppend
<1>3. EncodeChar(cs[k]) \in Seq(Byte) /\ Encoding(SubSeq(cs, 1, k - 1)) \in Seq(Byte)
  BY <1>1, EncodeCharBytes, TextTypes
<1>4. /\ Len(Encoding(SubSeq(cs, 1, k)))
           = Len(Encoding(SubSeq(cs, 1, k - 1))) + Len(EncodeChar(cs[k]))
      /\ Encoding(SubSeq(cs, 1, k)) \in Seq(Byte)
  BY <1>2, <1>3, ConcatProperties
<1> QED
  BY <1>1, <1>2, <1>3, <1>4, LenProperties DEF Offset

\* Each character's bytes stand in the bytes of the text, after those of the
\* characters before it.
LEMMA EncodingStands ==
    ASSUME NEW cs \in Seq(Scalar), NEW k \in 1 .. Len(cs)
    PROVE  /\ Stands(Encoding(cs), Offset(cs, k - 1), EncodeChar(cs[k]))
           /\ Offset(cs, k) <= Len(Encoding(cs))
<1> DEFINE B == {m \in 0 .. Len(cs) :
                    k <= m => /\ Stands(Encoding(SubSeq(cs, 1, m)),
                                        Offset(cs, k - 1), EncodeChar(cs[k]))
                              /\ Offset(cs, k) <= Offset(cs, m)}
<1>1. /\ Len(cs) \in Nat /\ 0 \in 0 .. Len(cs) /\ Len(cs) \in 0 .. Len(cs)
      /\ ~ (k <= 0) /\ k <= Len(cs)
  BY SMT
<1>2. 0 \in B
  BY <1>1
<1>3. ASSUME NEW m \in 1 .. Len(cs), m - 1 \in B PROVE m \in B
  <2>0. /\ m \in 0 .. Len(cs)
        /\ k < m => k <= m - 1
        /\ k < m \/ k = m \/ ~ (k <= m)
    BY SMT
  <2>1. CASE k = m
    <3>1. Stands(Encoding(SubSeq(cs, 1, m)), Offset(cs, k - 1), EncodeChar(cs[k]))
      BY <2>1, OffsetStep, StandsAfter DEF Offset
    <3>2. Offset(cs, k) \in Nat
      BY OffsetStep
    <3>3. Offset(cs, k) <= Offset(cs, m)
      BY <2>1, <3>2
    <3> QED
      BY <2>0, <3>1, <3>3
  <2>2. CASE k < m
    <3>1. /\ Stands(Encoding(SubSeq(cs, 1, m - 1)), Offset(cs, k - 1),
                    EncodeChar(cs[k]))
          /\ Offset(cs, k) <= Offset(cs, m - 1)
      BY <1>3, <2>0, <2>2
    <3>2. Stands(Encoding(SubSeq(cs, 1, m)), Offset(cs, k - 1), EncodeChar(cs[k]))
      <4>1. /\ Offset(cs, k - 1) \in Nat
            /\ Offset(cs, k - 1) + Len(EncodeChar(cs[k]))
                 <= Len(Encoding(SubSeq(cs, 1, m - 1)))
            /\ EncodeChar(cs[k]) \in Seq(Byte)
        BY <3>1, OffsetStep DEF Offset
      <4>2. /\ Encoding(SubSeq(cs, 1, m - 1)) \in Seq(Byte)
            /\ EncodeChar(cs[m]) \in Seq(Byte)
            /\ Encoding(SubSeq(cs, 1, m))
                 = Encoding(SubSeq(cs, 1, m - 1)) \o EncodeChar(cs[m])
        BY OffsetStep
      <4> QED
        BY <3>1, <4>1, <4>2, StandsBefore
    <3>3. Offset(cs, k) <= Offset(cs, m)
      <4>1. /\ Offset(cs, m) = Offset(cs, m - 1) + Len(EncodeChar(cs[m]))
            /\ Offset(cs, m) \in Nat /\ Offset(cs, m - 1) \in Nat
            /\ Len(EncodeChar(cs[m])) \in Nat /\ Offset(cs, k) \in Nat
        BY OffsetStep, LenProperties
      <4> QED
        BY SMT, <3>1, <4>1
    <3> QED
      BY <2>0, <3>2, <3>3
  <2>3. CASE ~ (k <= m)
    BY <2>0, <2>3
  <2> QED
    BY <2>0, <2>1, <2>2, <2>3
<1>4. \A m \in 0 .. Len(cs) : m \in B
  <2> HIDE DEF B
  <2> QED
    BY <1>1, <1>2, <1>3, Climb
<1>5. Len(cs) \in B
  BY <1>1, <1>4
<1> QED
  BY <1>1, <1>5, PrefixEmpty DEF Offset

-----------------------------------------------------------------------------
(* The characters utf8proc_iterate finds in the bytes of a text are those  *)
(* of the text.                                                            *)

\* Counting down from n.
LEMMA CountDown ==
    ASSUME NEW n \in Nat, NEW j \in 1 .. n
    PROVE  \E k \in 1 .. n : /\ k = (n - j) + 1 /\ k - 1 = n - j
                             /\ n - (j - 1) = k /\ (k - 1) + 1 = k
                             /\ k - 1 \in Nat /\ k - 1 <= n
                             /\ j \in 0 .. n /\ n \in k .. n
<1>1. PICK k : k = (n - j) + 1
  OBVIOUS
<1> QED
  BY SMT, <1>1

LEMMA RoomFor ==
    ASSUME NEW q \in Nat, NEW m \in 1 .. 4, NEW l \in Nat, q + m <= l
    PROVE  q \in 0 .. l /\ q < l /\ m > 0
BY SMT

\* The equation of Characters' recursive function.
FromAt(f, s, p) ==
    IF Accepted(s, p)
    THEN LET c == Iterate(s, p, Len(s)) IN << c.dst >> \o f[p + c.step]
    ELSE << >>

From(f, s, lo) == f = [p \in lo .. Len(s) |-> FromAt(f, s, p)]

LEMMA CharactersFrom ==
    ASSUME NEW s
    PROVE  Characters(s) = (CHOOSE f : From(f, s, 0))[0]
BY Zenon DEF Characters, From, FromAt

\* What utf8proc_iterate accepts takes it further, but not past the end.
LEMMA AcceptedStep ==
    ASSUME NEW s \in Seq(Byte), NEW p \in 0 .. Len(s), Accepted(s, p)
    PROVE  /\ Iterate(s, p, Len(s)).step \in 1 .. 4
           /\ p + Iterate(s, p, Len(s)).step \in p + 1 .. Len(s)
           /\ Iterate(s, p, Len(s)).dst \in Scalar
<1>1. /\ Len(s) \in 0 .. Len(s) /\ p \in 0 .. Len(s) - 1 /\ Len(s) \in Nat
      /\ Iterate(s, p, Len(s)).step > 0
  BY SMT DEF Accepted
<1>2. Iterate(s, p, Len(s)) # Rejected
  BY SMT, <1>1 DEF Rejected, Decoded, UTF8PROC_ERROR_INVALIDUTF8
<1>3. PICK r : /\ r = Iterate(s, p, Len(s))
               /\ r.step \in 1 .. 4 /\ p + r.step <= Len(s) /\ r.dst \in Scalar
  BY <1>1, <1>2, IterateSound
<1>4. p + r.step \in p + 1 .. Len(s)
  BY SMT, <1>1, <1>3
<1> QED
  BY <1>3, <1>4

LEMMA FromExists ==
    ASSUME NEW s \in Seq(Byte)
    PROVE  \E f : From(f, s, 0)
<1> DEFINE n == Len(s)
           B == {j \in 0 .. n : \E f : From(f, s, n - j)}
<1>1. n \in Nat /\ 0 \in 0 .. n /\ n \in 0 .. n /\ n - 0 = n /\ n - n = 0
  BY SMT
<1>2. 0 \in B
  <2> DEFINE f == [p \in n .. Len(s) |-> << >>]
  <2>1. \A p \in n .. Len(s) : FromAt(f, s, p) = << >>
    <3>1. \A p \in n .. Len(s) : ~ (p < Len(s))
      BY SMT, <1>1
    <3> QED
      BY <3>1 DEF FromAt, Accepted
  <2>2. f = [p \in n .. Len(s) |-> << >>]
    OBVIOUS
  <2> HIDE DEF f
  <2>3. f = [p \in n .. Len(s) |-> FromAt(f, s, p)]
    BY Zenon, <2>1, <2>2
  <2>4. \E g : From(g, s, n - 0)
    BY <1>1, <2>3 DEF From
  <2> QED
    BY <1>1, <2>4
<1>3. ASSUME NEW j \in 1 .. n, j - 1 \in B PROVE j \in B
  <2>1. PICK lo \in Nat : /\ lo = n - j /\ n - (j - 1) = lo + 1 /\ lo <= n
                          /\ j \in 0 .. n
    <3>1. PICK k \in 1 .. n : /\ k = (n - j) + 1 /\ k - 1 = n - j
                              /\ n - (j - 1) = k /\ (k - 1) + 1 = k
                              /\ k - 1 \in Nat /\ k - 1 <= n
                              /\ j \in 0 .. n
      BY <1>1, CountDown
    <3> QED
      BY <3>1
  <2>2. PICK g : From(g, s, lo + 1)
    BY <1>3, <2>1
  <2> DEFINE f == [p \in lo .. Len(s) |-> FromAt(g, s, p)]
  <2>3. ASSUME NEW p \in lo .. Len(s) PROVE FromAt(g, s, p) = FromAt(f, s, p)
    <3>1. CASE Accepted(s, p)
      <4>1. p \in 0 .. Len(s)
        BY SMT, <1>1
      <4>2. PICK q : q = p + Iterate(s, p, Len(s)).step /\ q \in p + 1 .. Len(s)
        BY <3>1, <4>1, AcceptedStep
      <4>3. q \in lo + 1 .. Len(s) /\ q \in lo .. Len(s)
        BY SMT, <1>1, <4>1, <4>2
      <4>4. g[q] = FromAt(g, s, q)
        BY Zenon, <2>2, <4>3 DEF From
      <4>5. f[q] = FromAt(g, s, q)
        BY Zenon, <4>3
      <4> HIDE DEF f
      <4> QED
        BY Zenon, <4>2, <4>4, <4>5 DEF FromAt
    <3>2. CASE ~ Accepted(s, p)
      BY <3>2 DEF FromAt
    <3> QED
      BY <3>1, <3>2
  <2>4. f = [p \in lo .. Len(s) |-> FromAt(g, s, p)]
    OBVIOUS
  <2> HIDE DEF f
  <2>5. From(f, s, lo)
    BY Zenon, <2>3, <2>4 DEF From
  <2> QED
    BY <2>1, <2>5
<1>4. \A j \in 0 .. n : j \in B
  <2> HIDE DEF B, n
  <2> QED
    BY <1>1, <1>2, <1>3, Climb
<1>5. n \in B
  BY <1>1, <1>4
<1> QED
  BY <1>1, <1>5

\* The characters of a byte string from one of its positions on.
Rest(s, p) == (CHOOSE f : From(f, s, 0))[p]

LEMMA RestStep ==
    ASSUME NEW s \in Seq(Byte), NEW p \in 0 .. Len(s)
    PROVE  Rest(s, p) = IF Accepted(s, p)
                        THEN << Iterate(s, p, Len(s)).dst >>
                                \o Rest(s, p + Iterate(s, p, Len(s)).step)
                        ELSE << >>
<1> DEFINE f == CHOOSE h : From(h, s, 0)
<1>1. From(f, s, 0)
  BY Zenon, FromExists
<1>2. Rest(s, p) = f[p] /\ \A q : Rest(s, q) = f[q]
  BY DEF Rest
<1> HIDE DEF f
<1>3. f[p] = FromAt(f, s, p)
  BY Zenon, <1>1 DEF From
<1> QED
  BY <1>2, <1>3 DEF FromAt

LEMMA RestAll == ASSUME NEW s PROVE Characters(s) = Rest(s, 0)
BY CharactersFrom DEF Rest

LEMMA RestType ==
    ASSUME NEW s \in Seq(Byte)
    PROVE  \A p \in 0 .. Len(s) : Rest(s, p) \in Seq(Scalar)
<1> DEFINE n == Len(s)
           B == {j \in 0 .. n : \A p \in n - j .. n : Rest(s, p) \in Seq(Scalar)}
<1>3. n \in Nat /\ 0 \in 0 .. n /\ n \in 0 .. n /\ n - n = 0
  BY SMT
<1>4. ASSUME NEW p \in 0 .. n,
             Accepted(s, p) => Rest(s, p + Iterate(s, p, Len(s)).step) \in Seq(Scalar)
      PROVE  Rest(s, p) \in Seq(Scalar)
  <2>2. CASE Accepted(s, p)
    <3>1. << Iterate(s, p, Len(s)).dst >> \in Seq(Scalar)
      BY <2>2, AcceptedStep, ShortSeqs
    <3> QED
      BY <1>4, <2>2, <3>1, RestStep, ConcatProperties
  <2>3. CASE ~ Accepted(s, p)
    BY <2>3, RestStep, EmptySeq
  <2> QED
    BY <2>2, <2>3
<1>5. 0 \in B
  <2>1. ASSUME NEW p \in n - 0 .. n PROVE Rest(s, p) \in Seq(Scalar)
    <3>1. p \in 0 .. n /\ ~ (p < Len(s))
      BY SMT, <1>3
    <3> QED
      BY <1>4, <3>1 DEF Accepted
  <2> QED
    BY <1>3, <2>1
<1>6. ASSUME NEW j \in 1 .. n, j - 1 \in B PROVE j \in B
  <2>1. ASSUME NEW p \in n - j .. n PROVE Rest(s, p) \in Seq(Scalar)
    <3>1. p \in 0 .. n
      BY SMT, <1>3
    <3>2. ASSUME Accepted(s, p)
          PROVE  Rest(s, p + Iterate(s, p, Len(s)).step) \in Seq(Scalar)
      <4>1. PICK q : q = p + Iterate(s, p, Len(s)).step /\ q \in p + 1 .. Len(s)
        BY <3>1, <3>2, AcceptedStep
      <4>2. q \in n - (j - 1) .. n
        BY SMT, <1>3, <3>1, <4>1
      <4> QED
        BY <1>6, <4>1, <4>2
    <3> QED
      BY <1>4, <3>1, <3>2
  <2>2. j \in 0 .. n
    BY SMT, <1>3
  <2> QED
    BY <2>1, <2>2
<1>7. \A j \in 0 .. n : j \in B
  <2> HIDE DEF B, n
  <2> QED
    BY <1>3, <1>5, <1>6, Climb
<1>8. n \in B /\ \A p \in 0 .. n : p \in n - n .. n
  BY <1>3, <1>7
<1> QED
  BY <1>8

\* Any byte string has characters, all of them scalar values.
LEMMA CharactersScalar ==
    ASSUME NEW s \in Seq(Byte)
    PROVE  Characters(s) \in Seq(Scalar)
<1>1. 0 \in 0 .. Len(s)
  BY SMT
<1> QED
  BY <1>1, RestAll, RestType

\* Decoding the bytes of a text gives the text back.
LEMMA CharactersEncoding ==
    ASSUME NEW cs \in Seq(Scalar)
    PROVE  Characters(Encoding(cs)) = cs
<1> DEFINE s == Encoding(cs)
           f == CHOOSE h : From(h, s, 0)
           n == Len(cs)
           B == {j \in 0 .. n : f[Offset(cs, n - j)] = SubSeq(cs, (n - j) + 1, n)}
<1>1. s \in Seq(Byte)
  BY TextTypes
<1>2. From(f, s, 0)
  BY Zenon, <1>1, FromExists
<1>3. Characters(s) = f[0]
  BY CharactersFrom
<1> HIDE DEF f
<1>4. n \in Nat /\ 0 \in 0 .. n /\ n \in 0 .. n /\ n - n = 0 /\ n - 0 = n
      /\ Len(s) \in Nat /\ Len(s) \in 0 .. Len(s) /\ ~ (Len(s) < Len(s))
      /\ n < n + 1 /\ n + 1 \in Int /\ n \in Int
  BY SMT, <1>1
<1>5. 0 \in B
  <2>1. Offset(cs, n) = Len(s)
    BY PrefixEmpty DEF Offset
  <2>2. f[Len(s)] = FromAt(f, s, Len(s))
    BY Zenon, <1>2, <1>4 DEF From
  <2>3. f[Len(s)] = << >>
    BY <1>4, <2>2 DEF FromAt, Accepted
  <2>4. SubSeq(cs, n + 1, n) = << >>
    BY <1>4, SubSeqEmpty
  <2> QED
    BY <1>4, <2>1, <2>3, <2>4
<1>6. ASSUME NEW j \in 1 .. n, j - 1 \in B PROVE j \in B
  <2>1. PICK k \in 1 .. n : /\ k = (n - j) + 1 /\ k - 1 = n - j
                            /\ n - (j - 1) = k /\ (k - 1) + 1 = k
                            /\ j \in 0 .. n /\ n \in k .. n
    BY <1>4, CountDown
  <2>2. f[Offset(cs, k)] = SubSeq(cs, k + 1, n)
    BY <1>6, <2>1
  <2>3. PICK q : q = Offset(cs, k - 1)
    OBVIOUS
  <2>4. PICK c, e : c = cs[k] /\ e = EncodeChar(c)
    OBVIOUS
  <2>5. /\ Stands(s, q, e) /\ q + Len(e) <= Len(s) /\ c \in Scalar
        /\ q \in Nat /\ Offset(cs, k) = q + Len(e) /\ Len(e) \in 1 .. 4
    BY <2>3, <2>4, EncodingStands, OffsetStep, EncodeCharBytes
  <2>6. Iterate(s, q, Len(s)) = Decoded(Len(e), c)
    BY <1>4, <2>4, <2>5, DecodeEncode
  <2>7. Iterate(s, q, Len(s)).step = Len(e) /\ Iterate(s, q, Len(s)).dst = c
    BY <2>6 DEF Decoded
  <2>8. q \in 0 .. Len(s) /\ q < Len(s) /\ Len(e) > 0
    BY <1>4, <2>5, RoomFor
  <2>9. Accepted(s, q)
    BY <2>7, <2>8 DEF Accepted
  <2>10. f[q] = FromAt(f, s, q)
    BY Zenon, <1>2, <2>8 DEF From
  <2>11. f[q] = << c >> \o f[q + Len(e)]
    BY Zenon, <2>7, <2>9, <2>10 DEF FromAt
  <2>12. f[q] = << cs[k] >> \o SubSeq(cs, k + 1, n)
    BY <2>2, <2>4, <2>5, <2>11
  <2>13. SubSeq(cs, k, n) = << cs[k] >> \o SubSeq(cs, k + 1, n)
    BY <2>1, SubSeqRecursiveFirst
  <2> QED
    BY <2>1, <2>3, <2>12, <2>13
<1>7. \A j \in 0 .. n : j \in B
  <2> HIDE DEF B, n
  <2> QED
    BY <1>4, <1>5, <1>6, Climb
<1>8. n \in B
  BY <1>4, <1>7
<1>9. Offset(cs, 0) = 0 /\ SubSeq(cs, 0 + 1, n) = cs
  <2>1. Len(<< >>) = 0 /\ 0 + 1 = 1
    BY SMT
  <2> QED
    BY <2>1, PrefixEmpty, EncodingEmpty DEF Offset
<1> QED
  BY <1>3, <1>4, <1>8, <1>9

-----------------------------------------------------------------------------
(* Sequences made of one piece per element.                                *)

\* Induction over sequences, of membership in a set.
LEMMA Lengthen ==
    ASSUME NEW S, NEW B, << >> \in B,
           \A s \in Seq(S), e \in S : s \in B => Append(s, e) \in B
    PROVE  \A s \in Seq(S) : s \in B
<1> TAKE s \in Seq(S)
<1> DEFINE P == {k \in 0 .. Len(s) : SubSeq(s, 1, k) \in B}
<1>1. Len(s) \in Nat /\ 0 \in 0 .. Len(s) /\ Len(s) \in 0 .. Len(s)
  BY SMT, LenProperties
<1>2. 0 \in P
  <2>1. SubSeq(s, 1, 0) = << >>
    BY SMT, SubSeqEmpty
  <2> QED
    BY <1>1, <2>1
<1>3. ASSUME NEW k \in 1 .. Len(s), k - 1 \in P PROVE k \in P
  <2>1. /\ 1 \in 1 .. Len(s) /\ k \in 1 .. Len(s) /\ k - 1 \in Int /\ 1 \in Int
        /\ k \in 0 .. Len(s) /\ \A i \in 1 .. k - 1 : i \in 1 .. Len(s)
    BY SMT, <1>1
  <2>2. SubSeq(s, 1, k) = SubSeq(s, 1, k - 1) \o << s[k] >>
    BY <2>1, SubSeqRecursiveSecond
  <2>3. s[k] \in S /\ \A i \in 1 .. Len(s) : s[i] \in S
    BY ElementOfSeq
  <2>4. SubSeq(s, 1, k - 1) \in Seq(S)
    BY <2>1, <2>3, SubSeqProperties
  <2>5. SubSeq(s, 1, k) = Append(SubSeq(s, 1, k - 1), s[k])
    BY <2>2, <2>3, <2>4, AppendIsConcat
  <2>6. SubSeq(s, 1, k - 1) \in B
    BY <1>3
  <2> QED
    BY <2>1, <2>3, <2>4, <2>5, <2>6
<1>4. \A k \in 0 .. Len(s) : k \in P
  <2> HIDE DEF P
  <2> QED
    BY <1>1, <1>2, <1>3, Climb
<1>5. SubSeq(s, 1, Len(s)) \in B
  BY <1>1, <1>4
<1> QED
  BY <1>5, SubSeqFull

LEMMA ConcatAppend ==
    ASSUME NEW S, NEW s \in Seq(S), NEW t \in Seq(S), NEW e \in S
    PROVE  s \o Append(t, e) = Append(s \o t, e)
<1>1. << e >> \in Seq(S) /\ s \o t \in Seq(S)
  BY ConcatProperties, ShortSeqs
<1> QED
  BY <1>1, AppendIsConcat, ConcatAssociative

\* The pieces some function has for the elements of a sequence.
Pieces(f, s) == [i \in 1 .. Len(s) |-> f[s[i]]]
Spread(f, s) == FlattenSeq(Pieces(f, s))

\* A function that has a sequence over T for every element of S.
Sends(f, S, T) == \A x \in S : f[x] \in Seq(T)

LEMMA SentPiece ==
    ASSUME NEW S, NEW T, NEW f, NEW e \in S, Sends(f, S, T)
    PROVE  f[e] \in Seq(T)
BY DEF Sends

LEMMA PiecesLonger ==
    ASSUME NEW S, NEW f, NEW s \in Seq(S), NEW e \in S
    PROVE  Pieces(f, Append(s, e)) = Append(Pieces(f, s), f[e])
<1> DEFINE n == Len(s)
<1>1. n \in Nat /\ Len(Append(s, e)) = n + 1
      /\ (\A i \in 1 .. n : s[i] \in S /\ Append(s, e)[i] = s[i])
      /\ Append(s, e)[n + 1] = e
      /\ \A i \in 1 .. n + 1 : i \in 1 .. n \/ i = n + 1
  BY SMT
<1> HIDE DEF n
<1>3. [i \in 1 .. n + 1 |-> f[Append(s, e)[i]]]
        = Append([i \in 1 .. n |-> f[s[i]]], f[e])
  BY SMT, <1>1
<1> QED
  BY <1>1, <1>3 DEF n, Pieces

LEMMA PiecesType ==
    ASSUME NEW S, NEW T, NEW f, NEW s \in Seq(S),
           Sends(f, S, T)
    PROVE  Pieces(f, s) \in Seq(Seq(T))
<1> DEFINE n == Len(s)
<1>1. n \in Nat /\ \A i \in 1 .. n : s[i] \in S
  BY SMT
<1> HIDE DEF n
<1>2. [i \in 1 .. n |-> f[s[i]]] \in Seq(Seq(T))
  BY <1>1 DEF Sends
<1> QED
  BY <1>1, <1>2 DEF n, Pieces

LEMMA SpreadAppend ==
    ASSUME NEW S, NEW T, NEW f, NEW s \in Seq(S), NEW e \in S,
           Sends(f, S, T)
    PROVE  Spread(f, Append(s, e)) = Spread(f, s) \o f[e]
<1>1. Pieces(f, s) \in Seq(Seq(T))
  BY PiecesType
<1>2. Pieces(f, Append(s, e)) = Append(Pieces(f, s), f[e])
  BY PiecesLonger
<1>3. f[e] \in Seq(T)
  BY SentPiece
<1>4. FlattenSeq(Append(Pieces(f, s), f[e])) = FlattenSeq(Pieces(f, s)) \o f[e]
  BY <1>1, <1>3, FlattenAppend
<1> QED
  BY <1>2, <1>4 DEF Spread

LEMMA SpreadEmpty == ASSUME NEW f PROVE Spread(f, << >>) = << >>
<1>1. Len(<< >>) = 0 /\ \A i : i \notin 1 .. 0
  BY SMT
<1>2. [i \in 1 .. 0 |-> f[<< >>[i]]] = << >>
  BY SMT, <1>1
<1> QED
  BY <1>1, <1>2, FlattenEmpty DEF Spread, Pieces

LEMMA SpreadType ==
    ASSUME NEW S, NEW T, NEW f, Sends(f, S, T)
    PROVE  \A s \in Seq(S) : Spread(f, s) \in Seq(T)
<1> DEFINE B == {s \in Seq(S) : Spread(f, s) \in Seq(T)}
<1>1. << >> \in B
  BY EmptySeq, SpreadEmpty
<1>2. ASSUME NEW s \in Seq(S), NEW e \in S, s \in B PROVE Append(s, e) \in B
  <2>1. Spread(f, Append(s, e)) = Spread(f, s) \o f[e]
    BY SpreadAppend
  <2>2. Spread(f, s) \in Seq(T) /\ f[e] \in Seq(T)
    BY <1>2, SentPiece
  <2>3. Spread(f, s) \o f[e] \in Seq(T)
    BY <2>2, ConcatProperties
  <2> QED
    BY <2>1, <2>3, AppendProperties
<1> HIDE DEF B
<1>3. \A s \in Seq(S) : s \in B
  BY <1>1, <1>2, Lengthen
<1> QED
  BY <1>3 DEF B

LEMMA SpreadConcat ==
    ASSUME NEW S, NEW T, NEW f, NEW a \in Seq(S),
           Sends(f, S, T)
    PROVE  \A b \in Seq(S) : /\ Spread(f, a \o b) = Spread(f, a) \o Spread(f, b)
                             /\ Spread(f, a \o b) \in Seq(T)
<1> DEFINE B == {b \in Seq(S) : Spread(f, a \o b) = Spread(f, a) \o Spread(f, b)}
<1>0. Spread(f, a) \in Seq(T)
  BY SpreadType
<1>1. << >> \in B
  BY <1>0, EmptySeq, SpreadEmpty, ConcatEmptySeq
<1>2. ASSUME NEW b \in Seq(S), NEW e \in S, b \in B PROVE Append(b, e) \in B
  <2>1. a \o b \in Seq(S) /\ Append(b, e) \in Seq(S)
    BY ConcatProperties, AppendProperties
  <2>2. Spread(f, a \o Append(b, e)) = Spread(f, a \o b) \o f[e]
    <3>1. a \o Append(b, e) = Append(a \o b, e)
      BY ConcatAppend
    <3>2. PICK ab : ab = a \o b
      OBVIOUS
    <3>3. ab \in Seq(S)
      BY <2>1, <3>2
    <3>4. Spread(f, Append(ab, e)) = Spread(f, ab) \o f[e]
      BY <3>3, SpreadAppend
    <3> QED
      BY <3>1, <3>2, <3>4
  <2>3. Spread(f, b) \in Seq(T) /\ f[e] \in Seq(T)
    BY SpreadType, SentPiece
  <2>4. Spread(f, a \o b) = Spread(f, a) \o Spread(f, b)
    BY <1>2
  <2>5. Spread(f, a \o Append(b, e)) = Spread(f, a) \o (Spread(f, b) \o f[e])
    <3>1. PICK x, y, z : x = Spread(f, a) /\ y = Spread(f, b) /\ z = f[e]
      OBVIOUS
    <3>2. x \in Seq(T) /\ y \in Seq(T) /\ z \in Seq(T)
      BY <1>0, <2>3, <3>1
    <3>3. (x \o y) \o z = x \o (y \o z)
      BY <3>2, ConcatAssociative
    <3> QED
      BY <2>2, <2>4, <3>1, <3>3
  <2>6. Spread(f, Append(b, e)) = Spread(f, b) \o f[e]
    BY SpreadAppend
  <2> QED
    BY <2>1, <2>5, <2>6
<1> HIDE DEF B
<1>3. \A b \in Seq(S) : b \in B
  BY <1>1, <1>2, Lengthen
<1>4. \A b \in Seq(S) : Spread(f, a \o b) \in Seq(T)
  BY ConcatProperties, SpreadType
<1> QED
  BY <1>3, <1>4 DEF B

LEMMA SpreadOne ==
    ASSUME NEW S, NEW T, NEW f, NEW e \in S, Sends(f, S, T)
    PROVE  Spread(f, << e >>) = f[e]
<1>1. << >> \in Seq(S) /\ << e >> = Append(<< >>, e)
  BY SMT, EmptySeq
<1>2. PICK none : none = << >>
  OBVIOUS
<1>3. none \in Seq(S)
  BY <1>1, <1>2
<1>4. Spread(f, Append(none, e)) = Spread(f, none) \o f[e]
  BY <1>3, SpreadAppend
<1>5. f[e] \in Seq(T)
  BY SentPiece
<1>6. << >> \o f[e] = f[e]
  BY <1>5, ConcatEmptySeq
<1> QED
  BY <1>1, <1>2, <1>4, <1>6, SpreadEmpty

\* What maps everything to itself changes nothing.
LEMMA SpreadSame ==
    ASSUME NEW S, NEW f, \A x \in S : f[x] = << x >>
    PROVE  \A s \in Seq(S) : Spread(f, s) = s
<1>0. Sends(f, S, S)
  <2>1. \A x \in S : << x >> \in Seq(S)
    BY ShortSeqs
  <2> QED
    BY <2>1 DEF Sends
<1> DEFINE B == {s \in Seq(S) : Spread(f, s) = s}
<1>1. << >> \in B
  BY EmptySeq, SpreadEmpty
<1>2. ASSUME NEW s \in Seq(S), NEW e \in S, s \in B PROVE Append(s, e) \in B
  <2>1. Spread(f, Append(s, e)) = Spread(f, s) \o f[e] /\ f[e] = << e >>
    BY <1>0, SpreadAppend
  <2>2. Spread(f, s) = s
    BY <1>2
  <2> QED
    BY <2>1, <2>2, AppendIsConcat, AppendProperties
<1> HIDE DEF B
<1>3. \A s \in Seq(S) : s \in B
  BY <1>1, <1>2, Lengthen
<1> QED
  BY <1>3 DEF B

\* Two in a row are one.
LEMMA SpreadTwice ==
    ASSUME NEW S, NEW T, NEW U, NEW f, NEW g, NEW h,
           Sends(f, S, T), Sends(g, T, U),
           \A x \in S : h[x] = Spread(g, f[x])
    PROVE  \A s \in Seq(S) : Spread(g, Spread(f, s)) = Spread(h, s)
<1>0. Sends(h, S, U)
  <2>1. \A x \in S : Spread(g, f[x]) \in Seq(U)
    BY SpreadType, SentPiece
  <2> QED
    BY <2>1 DEF Sends
<1> DEFINE B == {s \in Seq(S) : Spread(g, Spread(f, s)) = Spread(h, s)}
<1>1. << >> \in B
  BY EmptySeq, SpreadEmpty
<1>2. ASSUME NEW s \in Seq(S), NEW e \in S, s \in B PROVE Append(s, e) \in B
  <2>1. /\ Spread(f, Append(s, e)) = Spread(f, s) \o f[e]
        /\ Spread(h, Append(s, e)) = Spread(h, s) \o h[e]
    BY <1>0, SpreadAppend
  <2>2. Spread(f, s) \in Seq(T) /\ f[e] \in Seq(T)
    BY SpreadType, SentPiece
  <2>3. Spread(g, Spread(f, s) \o f[e]) = Spread(g, Spread(f, s)) \o Spread(g, f[e])
    <3>1. PICK a : a = Spread(f, s)
      OBVIOUS
    <3>2. a \in Seq(T)
      BY <2>2, <3>1
    <3>3. \A b \in Seq(T) :
             /\ Spread(g, a \o b) = Spread(g, a) \o Spread(g, b)
             /\ Spread(g, a \o b) \in Seq(U)
      BY Zenon, <3>2, SpreadConcat
    <3> QED
      BY <2>2, <3>1, <3>3
  <2>4. Spread(g, Spread(f, s)) = Spread(h, s)
    BY <1>2
  <2> QED
    BY <2>1, <2>3, <2>4, AppendProperties
<1> HIDE DEF B
<1>3. \A s \in Seq(S) : s \in B
  BY <1>1, <1>2, Lengthen
<1> QED
  BY <1>3 DEF B

-----------------------------------------------------------------------------
(* Reading a byte string from its beginning.                                *)

\* What was read of a byte string before one of its positions.
ReadTo(s, read, p) ==
    /\ read \in Seq(Scalar) /\ p \in 0 .. Len(s)
    /\ Characters(s) = read \o Rest(s, p)
    /\ Encoding(read) = SubSeq(s, 1, p)

LEMMA ReadStart ==
    ASSUME NEW s \in Seq(Byte) PROVE ReadTo(s, << >>, 0)
<1>1. 0 \in 0 .. Len(s) /\ SubSeq(s, 1, 0) = << >>
  <2>1. 0 \in 0 .. Len(s)
    BY SMT
  <2>2. SubSeq(s, 1, 0) = << >>
    BY SMT, SubSeqEmpty
  <2> QED
    BY <2>1, <2>2
<1>2. Rest(s, 0) \in Seq(Scalar)
  BY <1>1, RestType
<1>3. << >> \o Rest(s, 0) = Rest(s, 0)
  BY <1>2, ConcatEmptySeq
<1> QED
  BY <1>1, <1>3, RestAll, EncodingEmpty, EmptySeq DEF ReadTo

LEMMA ReadMore ==
    ASSUME NEW s \in Seq(Byte), NEW read, NEW p, ReadTo(s, read, p), Accepted(s, p)
    PROVE  LET r == Iterate(s, p, Len(s))
           IN  /\ r.dst \in Scalar
               /\ ReadTo(s, Append(read, r.dst), p + r.step)
<1>1. PICK r : r = Iterate(s, p, Len(s))
  OBVIOUS
<1>2. /\ read \in Seq(Scalar) /\ p \in 0 .. Len(s)
      /\ Characters(s) = read \o Rest(s, p) /\ Encoding(read) = SubSeq(s, 1, p)
  BY DEF ReadTo
<1>3. r.step \in 1 .. 4 /\ p + r.step \in p + 1 .. Len(s) /\ r.dst \in Scalar
  BY <1>1, <1>2, AcceptedStep
<1>4. p + r.step \in 0 .. Len(s) /\ p \in 0 .. Len(s) - 1 /\ Len(s) \in 0 .. Len(s)
  BY SMT, <1>2, <1>3
<1>5. Rest(s, p + r.step) \in Seq(Scalar)
  BY <1>4, RestType
<1>6. Characters(s) = Append(read, r.dst) \o Rest(s, p + r.step)
  <2>1. Rest(s, p) = << r.dst >> \o Rest(s, p + r.step)
    BY <1>1, <1>2, RestStep
  <2>2. PICK x : x = Rest(s, p + r.step)
    OBVIOUS
  <2>3. << r.dst >> \in Seq(Scalar) /\ x \in Seq(Scalar)
    BY <1>3, <1>5, <2>2, ShortSeqs
  <2>4. read \o (<< r.dst >> \o x) = (read \o << r.dst >>) \o x
    BY <1>2, <2>3, ConcatAssociative
  <2>5. read \o << r.dst >> = Append(read, r.dst)
    BY <1>2, <1>3, AppendIsConcat
  <2> QED
    BY <1>2, <2>1, <2>2, <2>4, <2>5
<1>7. Encoding(Append(read, r.dst)) = SubSeq(s, 1, p + r.step)
  <2>1. Encoding(Append(read, r.dst)) = SubSeq(s, 1, p) \o EncodeChar(r.dst)
    BY <1>2, <1>3, EncodingAppend
  <2>2. r # Rejected
    BY SMT, <1>3 DEF Rejected, Decoded, UTF8PROC_ERROR_INVALIDUTF8
  <2>3. /\ Len(EncodeChar(r.dst)) = r.step
        /\ Stands(s, p, EncodeChar(r.dst))
    BY <1>1, <1>4, <2>2, IterateSound
  <2>4. PICK e : e = EncodeChar(r.dst)
    OBVIOUS
  <2>5. PICK k : k = r.step
    OBVIOUS
  <2>6. /\ e \in Seq(Byte) /\ Len(e) = k /\ k \in 1 .. 4 /\ p + k <= Len(s)
        /\ p \in Nat /\ Len(s) \in Nat
        /\ \A i \in 1 .. k : s[p + i] = e[i]
    <3>1. e \in Seq(Byte)
      BY <1>3, <2>4, EncodeCharBytes
    <3>2. \A i \in 1 .. k : At(s, p + i - 1) = e[i]
      BY <2>3, <2>4, <2>5 DEF Stands
    <3>3. k \in 1 .. 4 /\ p + k <= Len(s) /\ p \in Nat /\ Len(s) \in Nat
      BY SMT, <1>3, <1>4, <2>5
    <3>4. \A i \in 1 .. k : s[p + i] = e[i]
      BY SMT, <3>2, <3>3 DEF At
    <3> QED
      BY <2>3, <2>4, <2>5, <3>1, <3>3, <3>4
  <2>7. SubSeq(s, 1, p) \o e = SubSeq(s, 1, p + k)
    <3>1. PICK a : a = SubSeq(s, 1, p)
      OBVIOUS
    <3>2. PICK b : b = SubSeq(s, 1, p + k)
      OBVIOUS
    <3>3. a \in Seq(Byte) /\ Len(a) = p /\ \A i \in 1 .. p : a[i] = s[i]
      BY SMT, <2>6, <3>1
    <3>4. b \in Seq(Byte) /\ Len(b) = p + k /\ \A i \in 1 .. p + k : b[i] = s[i]
      BY SMT, <2>6, <3>2
    <3>5. /\ a \o e \in Seq(Byte) /\ Len(a \o e) = p + k
          /\ \A i \in 1 .. p + k : (a \o e)[i] = IF i <= p THEN a[i] ELSE e[i - p]
      BY SMT, <2>6, <3>3
    <3>6. \A i \in 1 .. p + k : (a \o e)[i] = b[i]
      BY SMT, <2>6, <3>3, <3>4, <3>5
    <3>7. a \o e = b
      BY <3>4, <3>5, <3>6, SeqEqual
    <3> QED
      BY <3>1, <3>2, <3>7
  <2> QED
    BY <2>1, <2>4, <2>5, <2>7
<1>8. Append(read, r.dst) \in Seq(Scalar)
  BY <1>2, <1>3, AppendProperties
<1> QED
  BY <1>1, <1>3, <1>4, <1>6, <1>7, <1>8 DEF ReadTo

\* At the end of it, or at a defect, everything there is has been read.
LEMMA ReadAll ==
    ASSUME NEW s \in Seq(Byte), NEW read, NEW p, ReadTo(s, read, p), ~ Accepted(s, p)
    PROVE  /\ read = Characters(s)
           /\ WellFormed(s) <=> p = Len(s)
<1>1. /\ read \in Seq(Scalar) /\ p \in 0 .. Len(s)
      /\ Characters(s) = read \o Rest(s, p) /\ Encoding(read) = SubSeq(s, 1, p)
  BY DEF ReadTo
<1>2. Rest(s, p) = << >>
  BY <1>1, RestStep
<1>3. read = Characters(s)
  BY <1>1, <1>2, ConcatEmptySeq
<1>4. PICK a : a = SubSeq(s, 1, p)
  OBVIOUS
<1>5. a \in Seq(Byte) /\ Len(a) = p /\ \A i \in 1 .. p : a[i] = s[i]
  BY SMT, <1>1, <1>4
<1>6. a = s <=> p = Len(s)
  BY <1>5, SeqEqual
<1> QED
  BY <1>1, <1>3, <1>4, <1>6 DEF WellFormed
==============================================================================
