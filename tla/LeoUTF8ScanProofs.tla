-------------------------- MODULE LeoUTF8ScanProofs --------------------------
(***************************************************************************)
(* The scan invariants of LeoUTF8Scan, for every byte string, every length *)
(* and every history of calls.                                             *)
(***************************************************************************)
EXTENDS LeoUTF8Scan, Utf8CodecProofs, FiniteSetTheorems

\* utf8proc_iterate accepts exactly the encodings of scalar values.
LEMMA AcceptedEncodes ==
    ASSUME NEW s \in Seq(Byte), NEW end \in 0 .. Len(s), NEW at \in 0 .. end - 1,
           NEW k, k = Iterate(s, at, end).step, k > 0
    PROVE  /\ k \in 1 .. 4
           /\ at + k <= end
           /\ Encodes(s, at, at + k)
<1>1. Iterate(s, at, end) # Rejected
  BY SMT DEF Rejected, Decoded, UTF8PROC_ERROR_INVALIDUTF8
<1> DEFINE r == Iterate(s, at, end)
<1>2. /\ r.step \in 1 .. 4
      /\ at + r.step <= end
      /\ r.dst = Payload(s, at, r.step)
      /\ r.dst \in Scalar
      /\ Len(EncodeChar(r.dst)) = r.step
      /\ Stands(s, at, EncodeChar(r.dst))
  BY <1>1, IterateSound
<1> HIDE DEF r
<1>3. k = r.step
  BY DEF r
<1>4. at + k - at = k
  BY SMT, <1>2, <1>3
<1> QED
  BY <1>2, <1>3, <1>4 DEF Encodes

LEMMA EncodedAccepted ==
    ASSUME NEW s \in Seq(Byte), NEW end \in 0 .. Len(s), NEW at \in Nat,
           NEW to \in Nat, to <= end, Encodes(s, at, to)
    PROVE  Iterate(s, at, end).step > 0
<1> DEFINE uc == Payload(s, at, to - at)
<1>1. /\ to - at \in 1 .. 4
      /\ uc \in Scalar
      /\ Len(EncodeChar(uc)) = to - at
      /\ Stands(s, at, EncodeChar(uc))
  BY DEF Encodes
<1> HIDE DEF uc
<1>2. at + Len(EncodeChar(uc)) <= end
  BY SMT, <1>1
<1>3. Iterate(s, at, end) = Decoded(Len(EncodeChar(uc)), uc)
  BY <1>1, <1>2, DecodeEncode
<1>4. Iterate(s, at, end).step = to - at
  BY <1>1, <1>3 DEF Decoded
<1> QED
  BY SMT, <1>1, <1>4

\* One more encoding after the last cut.
LEMMA TilesExtend ==
    ASSUME NEW s, NEW m \in Nat, NEW k \in Nat, m < k,
           NEW cuts \in SUBSET (0 .. m), Tiles(cuts, s, m), Encodes(s, m, k)
    PROVE  Tiles(cuts \cup {k}, s, k)
<1>1. 0 \in cuts /\ m \in cuts
  BY DEF Tiles
<1>2. ASSUME NEW a \in cuts \cup {k}, NEW b \in cuts \cup {k}, a < b,
             \A c \in cuts \cup {k} : c <= a \/ b <= c
      PROVE  Encodes(s, a, b)
  <2>1. a \in Nat /\ b \in Nat /\ a \in cuts
    BY SMT, <1>2
  <2>2. CASE b = k
    <3>1. a = m
      BY SMT, <1>1, <1>2, <2>1, <2>2
    <3> QED
      BY <2>2, <3>1
  <2>3. CASE b \in cuts
    BY <1>2, <2>1, <2>3 DEF Tiles
  <2> QED
    BY <2>2, <2>3
<1> QED
  BY <1>1, <1>2 DEF Tiles

LEMMA CutsFinite ==
    ASSUME NEW m \in Nat, NEW k \in Nat, m < k, NEW cuts \in SUBSET (0 .. m)
    PROVE  Cardinality(cuts \cup {k}) = Cardinality(cuts) + 1
<1>1. IsFiniteSet(0 .. m)
  BY FS_Interval
<1>2. IsFiniteSet(cuts)
  BY <1>1, FS_Subset
<1>3. k \notin cuts
  BY SMT
<1> QED
  BY <1>2, <1>3, FS_AddElement

-----------------------------------------------------------------------------
(* The inductive invariant.                                                *)

IInv == TypeOK /\ CursorBetweenCharacters /\ RejectsAtFirstDefect

LEMMA InitIInv == Init => IInv
<1> SUFFICES ASSUME Init PROVE IInv
  OBVIOUS
<1>1. TypeOK
  <2>1. {length, p, remaining, localCount, count} \subseteq Nat
    BY SMT DEF Init
  <2> QED
    BY Zenon, <2>1 DEF Init, TypeOK, Status
<1>2. CursorBetweenCharacters /\ RejectsAtFirstDefect
  BY Zenon DEF Init, CursorBetweenCharacters, RejectsAtFirstDefect
<1> QED
  BY <1>1, <1>2 DEF IInv

LEMMA EmptyTiling ==
    ASSUME NEW s
    PROVE  Tiles({0}, s, 0) /\ Cardinality({0}) = 1
<1>1. Tiles({0}, s, 0)
  BY SMT DEF Tiles
<1>2. Cardinality({0}) = 1
  BY FS_Singleton
<1> QED
  BY <1>1, <1>2

LEMMA EnterIInv ==
    ASSUME IInv, NEW usable \in BOOLEAN, NEW isCount \in BOOLEAN,
           NEW b \in Memory \cup {NULL}, NEW n \in Nat,
           usable /\ n <= LONG_MAX => b \in Memory /\ n <= Len(b),
           Enter(usable, isCount, b, n)
    PROVE  IInv'
<1>1. TypeOK'
  <2>1. bytes' = b /\ length' = n /\ counting' = isCount
    BY DEF Enter
  <2>2. {length, p, remaining, localCount, count}' \subseteq Nat
    BY SMT DEF Enter, IInv, TypeOK
  <2>3. pc' \in {"idle", "loop", "returned"} /\ status' \in Status
    BY SMT DEF Enter, IInv, TypeOK, Status
  <2>4. pc' = "loop" => usable /\ n <= LONG_MAX
    BY SMT DEF Enter, FitsUtf8procLength
  <2> QED
    BY <2>1, <2>2, <2>3, <2>4 DEF TypeOK
<1>2. CursorBetweenCharacters'
  <2> SUFFICES ASSUME pc' = "loop" PROVE CursorBetweenCharacters'
    BY DEF CursorBetweenCharacters
  <2>1. p' = 0 /\ remaining' = length' /\ length' = n /\ localCount' = 0
    BY SMT DEF Enter
  <2>2. p' + remaining' = length'
    BY SMT, <2>1
  <2>3. Tiles({0}, bytes', 0) /\ Cardinality({0}) = 1
    BY EmptyTiling
  <2>4. {0} \in SUBSET (0 .. 0) /\ 1 = 0 + 1
    BY SMT
  <2>5. Cardinality({0}) = localCount' + 1 /\ Tiles({0}, bytes', p')
        /\ {0} \in SUBSET (0 .. p')
    BY <2>1, <2>3, <2>4
  <2> QED
    BY Zenon, <2>2, <2>5 DEF CursorBetweenCharacters
<1>3. RejectsAtFirstDefect'
  BY SMT DEF Enter, RejectsAtFirstDefect
<1> QED
  BY <1>1, <1>2, <1>3 DEF IInv

LEMMA MemoryString ==
    ASSUME NEW m \in Memory
    PROVE  /\ m \in Seq(Byte)
           /\ Len(m) \in Nat
           /\ Len(m) <= LONG_MAX
BY SMT, MemoryAssumption, LimitAssumption

\* strlen of a terminated string stops before its first NUL.
LEMMA StrLenBound ==
    ASSUME NEW m \in Memory, IsCString(m)
    PROVE  StrLen(m) \in Nat /\ StrLen(m) <= Len(m)
<1> DEFINE i0 == CHOOSE i \in 1 .. Len(m) : FirstNul(m, i)
<1>1. Len(m) \in Nat
  BY MemoryString
<1>3. i0 \in 1 .. Len(m)
  BY Zenon DEF IsCString
<1>4. StrLen(m) = i0 - 1
  BY DEF StrLen
<1> HIDE DEF i0
<1> QED
  BY SMT, <1>1, <1>3, <1>4

-----------------------------------------------------------------------------
(* One lemma per action.                                                   *)

LEMMA LengthsBound ==
    ASSUME NEW m \in Memory, NEW n \in Lengths(m)
    PROVE  n \in Nat /\ (n <= LONG_MAX => n <= Len(m))
<1>1. Len(m) \in Nat /\ LONG_MAX \in Nat
  BY MemoryString, LimitAssumption
<1> QED
  BY SMT, <1>1 DEF Lengths

LEMMA CallIInv == ASSUME IInv, Call PROVE IInv'
<1>0. TRUE \in BOOLEAN /\ FALSE \in BOOLEAN /\ 0 \in Nat
  BY SMT
<1>1. ASSUME NEW m \in Memory, NEW n \in Lengths(m),
             NEW usable \in BOOLEAN, NEW isCount \in BOOLEAN,
             Enter(usable, isCount, m, n)
      PROVE  IInv'
  <2>1. n \in Nat /\ (usable /\ n <= LONG_MAX => m \in Memory /\ n <= Len(m))
    BY LengthsBound
  <2> QED
    BY Zenon, <1>1, <2>1, EnterIInv
<1>2. ASSUME NEW m \in Memory, IsCString(m),
             NEW usable \in BOOLEAN, NEW isCount \in BOOLEAN,
             Enter(usable, isCount, m, StrLen(m))
      PROVE  IInv'
  <2>1. /\ StrLen(m) \in Nat
        /\ usable /\ StrLen(m) <= LONG_MAX
             => m \in Memory /\ StrLen(m) <= Len(m)
    BY <1>2, StrLenBound
  <2> QED
    BY Zenon, <1>2, <2>1, EnterIInv
<1>3. ASSUME NEW isCount \in BOOLEAN, Enter(FALSE, isCount, NULL, 0)
      PROVE  IInv'
  <2>1. FALSE /\ 0 <= LONG_MAX => NULL \in Memory /\ 0 <= Len(NULL)
    OBVIOUS
  <2> QED
    BY Zenon, <1>0, <1>3, <2>1, EnterIInv
<1>4. CASE ValidateBytes
  BY Zenon, <1>0, <1>1, <1>3, <1>4 DEF ValidateBytes
<1>5. CASE CodepointCountBytes
  BY Zenon, <1>0, <1>1, <1>3, <1>5 DEF CodepointCountBytes
<1>6. CASE Validate
  BY Zenon, <1>0, <1>2, <1>3, <1>6 DEF Validate
<1>7. CASE CodepointCount
  BY Zenon, <1>0, <1>2, <1>3, <1>7 DEF CodepointCount
<1> QED
  BY Zenon, <1>4, <1>5, <1>6, <1>7 DEF Call

\* What the invariant says inside the loop.
LEMMA LoopState ==
    ASSUME IInv, pc = "loop"
    PROVE  /\ bytes \in Seq(Byte)
           /\ {length, p, remaining, localCount, count} \subseteq Nat
           /\ p + remaining = length
           /\ length <= Len(bytes)
           /\ Len(bytes) \in Nat
<1>1. /\ bytes \in Memory /\ length <= Len(bytes)
      /\ {length, p, remaining, localCount, count} \subseteq Nat
  BY DEF IInv, TypeOK
<1>2. p + remaining = length
  BY DEF IInv, CursorBetweenCharacters
<1> QED
  BY <1>1, <1>2, MemoryString

LEMMA AdvanceIInv == ASSUME IInv, Advance PROVE IInv'
<1> DEFINE k == Step
<1>0. /\ pc = "loop" /\ remaining > 0 /\ k > 0
      /\ pc' = pc /\ bytes' = bytes /\ length' = length /\ counting' = counting
      /\ count' = count /\ status' = status
      /\ p' = p + k /\ remaining' = remaining - k
      /\ localCount' = IF counting THEN localCount + 1 ELSE localCount
  BY DEF Advance
<1>1. /\ bytes \in Seq(Byte)
      /\ {length, p, remaining, localCount, count} \subseteq Nat
      /\ p + remaining = length
      /\ length <= Len(bytes)
      /\ Len(bytes) \in Nat
  BY <1>0, LoopState
<1>2. k \in 1 .. 4 /\ k <= remaining /\ Encodes(bytes, p, p + k)
  <2>1. p + remaining \in 0 .. Len(bytes) /\ p \in 0 .. p + remaining - 1
    BY SMT, <1>0, <1>1
  <2>2. k = Iterate(bytes, p, p + remaining).step
    BY DEF Step
  <2> HIDE DEF k
  <2>3. /\ k \in 1 .. 4
        /\ p + k <= p + remaining
        /\ Encodes(bytes, p, p + k)
    BY <1>0, <1>1, <2>1, <2>2, AcceptedEncodes
  <2> QED
    BY SMT, <1>1, <2>3
<1> HIDE DEF k
<1>3. p' \in Nat /\ remaining' \in Nat /\ localCount' \in Nat /\ p < p'
      /\ p' + remaining' = length'
  <2>1. /\ p' = p + k /\ remaining' = remaining - k /\ length' = length
        /\ localCount' = localCount \/ localCount' = localCount + 1
    BY <1>0
  <2>2. /\ p \in Nat /\ remaining \in Nat /\ localCount \in Nat
        /\ length \in Nat /\ p + remaining = length
    BY <1>1
  <2>3. k \in 1 .. 4 /\ k <= remaining
    BY <1>2
  <2> QED
    BY SMT, <2>1, <2>2, <2>3
<1>4. TypeOK'
  <2>1. TypeOK
    BY DEF IInv
  <2> QED
    BY <1>0, <1>3, <2>1 DEF TypeOK
<1>5. CursorBetweenCharacters'
  <2>1. PICK cuts \in SUBSET (0 .. p) :
             /\ Tiles(cuts, bytes, p)
             /\ counting => Cardinality(cuts) = localCount + 1
    BY <1>0 DEF IInv, CursorBetweenCharacters
  <2> DEFINE more == cuts \cup {p'}
  <2>2. Tiles(more, bytes, p')
    BY <1>0, <1>1, <1>2, <1>3, <2>1, TilesExtend
  <2>3. Cardinality(more) = Cardinality(cuts) + 1
    <3>1. p \in Nat /\ p' \in Nat /\ p < p'
      BY <1>1, <1>3
    <3> QED
      BY Zenon, <2>1, <3>1, CutsFinite
  <2>4. more \in SUBSET (0 .. p')
    <3>1. p \in Nat /\ p' \in Nat /\ p < p'
      BY <1>1, <1>3
    <3>2. cuts \subseteq 0 .. p
      BY <2>1
    <3>3. \A i \in 0 .. p : i \in 0 .. p'
      BY SMT, <3>1
    <3>4. p' \in 0 .. p'
      BY SMT, <3>1
    <3> QED
      BY <3>2, <3>3, <3>4
  <2> HIDE DEF more
  <2>5. counting' => Cardinality(more) = localCount' + 1
    BY SMT, <1>0, <2>1, <2>3
  <2> QED
    BY Zenon, <1>0, <1>3, <2>2, <2>4, <2>5 DEF CursorBetweenCharacters
<1>6. RejectsAtFirstDefect'
  BY <1>0 DEF RejectsAtFirstDefect
<1> QED
  BY <1>4, <1>5, <1>6 DEF IInv

LEMMA RejectIInv == ASSUME IInv, Reject PROVE IInv'
<1>0. /\ pc = "loop" /\ remaining > 0 /\ ~ (Step > 0)
      /\ pc' = "returned" /\ status' \in Status
      /\ UNCHANGED << counting, bytes, length, p, remaining, localCount, count >>
  <2>1. status' \in Status
    BY Zenon DEF Reject, LeoUTF8StatusFromUtf8proc, Status
  <2>2. Step <= 0 => ~ (Step > 0)
    <3>1. Step \in Int
      BY SMT DEF Step, Iterate, Decoded, Rejected, SequenceLength,
                 UTF8PROC_ERROR_INVALIDUTF8
    <3> QED
      BY SMT, <3>1
  <2> QED
    BY <2>1, <2>2 DEF Reject
<1>1. /\ bytes \in Seq(Byte)
      /\ {length, p, remaining, localCount, count} \subseteq Nat
      /\ p + remaining = length
      /\ length <= Len(bytes)
      /\ Len(bytes) \in Nat
  BY <1>0, LoopState
<1>2. TypeOK'
  BY <1>0 DEF IInv, TypeOK
<1>3. CursorBetweenCharacters'
  BY <1>0 DEF CursorBetweenCharacters
<1>4. RejectsAtFirstDefect'
  <2> SUFFICES ASSUME NEW to \in p + 1 .. length, Encodes(bytes, p, to)
               PROVE  FALSE
    BY <1>0 DEF RejectsAtFirstDefect
  <2>1. to \in Nat /\ to <= p + remaining /\ p + remaining \in 0 .. Len(bytes)
    BY SMT, <1>1
  <2>2. Step > 0
    BY <1>1, <2>1, EncodedAccepted DEF Step
  <2> QED
    BY <1>0, <2>2
<1> QED
  BY <1>2, <1>3, <1>4 DEF IInv

LEMMA AcceptIInv == ASSUME IInv, Accept PROVE IInv'
<1>0. /\ pc = "loop" /\ remaining <= 0
      /\ pc' = "returned" /\ status' = OK
      /\ count' = IF counting THEN localCount ELSE count
      /\ UNCHANGED << counting, bytes, length, p, remaining, localCount >>
  BY DEF Accept
<1>1. {length, p, remaining, localCount, count} \subseteq Nat
  BY DEF IInv, TypeOK
<1>2. TypeOK'
  BY <1>0, <1>1 DEF IInv, TypeOK, Status
<1>3. CursorBetweenCharacters'
  BY <1>0 DEF CursorBetweenCharacters
<1>4. RejectsAtFirstDefect'
  BY SMT, <1>0, <1>1 DEF RejectsAtFirstDefect
<1> QED
  BY <1>2, <1>3, <1>4 DEF IInv

LEMMA ReturnIInv == ASSUME IInv, Return PROVE IInv'
<1>1. TypeOK'
  <2>1. {length, p, remaining, localCount, count}' \subseteq Nat
    BY SMT DEF Return, IInv, TypeOK
  <2> QED
    BY Zenon, <2>1 DEF Return, IInv, TypeOK
<1>2. CursorBetweenCharacters' /\ RejectsAtFirstDefect'
  BY DEF Return, CursorBetweenCharacters, RejectsAtFirstDefect
<1> QED
  BY <1>1, <1>2 DEF IInv

LEMMA StutterIInv == ASSUME IInv, UNCHANGED vars PROVE IInv'
BY DEF IInv, vars, TypeOK, CursorBetweenCharacters, RejectsAtFirstDefect

-----------------------------------------------------------------------------
\* The three invariants together are inductive; a call's answer does not depend
\* on the calls before it.
THEOREM SpecIInv == Spec => []IInv
<1>1. IInv /\ [Next]_vars => IInv'
  BY Zenon, CallIInv, AdvanceIInv, RejectIInv, AcceptIInv, ReturnIInv,
     StutterIInv DEF Next, Run
<1> QED
  BY InitIInv, <1>1, PTL DEF Spec

\* Type correctness: no length, cursor or counter ever goes below zero, so the
\* size_t and ptrdiff_t arithmetic of the loops never wraps.
THEOREM TypeCorrect == Spec => []TypeOK
BY SpecIInv, PTL DEF IInv

\* The loops of LeoUTF8ValidateBytes and LeoUTF8CodepointCountBytes only ever
\* stand between two characters, with the exact number of them counted, and
\* never step over the length they were given.
THEOREM CursorCorrect == Spec => []CursorBetweenCharacters
BY SpecIInv, PTL DEF IInv

\* A scan that gives up does so at a place where no scalar value's encoding
\* starts: the functions never refuse a well-formed character.
THEOREM RefusalCorrect == Spec => []RejectsAtFirstDefect
BY SpecIInv, PTL DEF IInv

-----------------------------------------------------------------------------
(* utf8proc_iterate's checks are the rows of the Unicode table.            *)

Accepts(s, at, n) == /\ SequenceLength(At(s, at)) = n
                     /\ ContinuationsPresent(s, at, at + n, n)
                     /\ PayloadAllowed(s, at, n)

LEMMA EncodesAccepts ==
    ASSUME NEW s \in Seq(Byte), NEW at \in Nat, NEW n \in 1 .. 4, at + n <= Len(s)
    PROVE  Encodes(s, at, at + n) <=> Accepts(s, at, n)
<1>1. /\ at + n \in 0 .. Len(s) /\ at \in 0 .. at + n - 1 /\ at # at + n
      /\ (at + n) - at = n /\ at + n \in Nat
  BY SMT
<1>2. ASSUME Encodes(s, at, at + n) PROVE Accepts(s, at, n)
  <2> DEFINE uc == Payload(s, at, n)
             k == SequenceLength(At(s, at))
  <2>1. /\ uc \in Scalar /\ Len(EncodeChar(uc)) = n /\ Stands(s, at, EncodeChar(uc))
    BY <1>1, <1>2 DEF Encodes
  <2>2. Iterate(s, at, at + n) = Decoded(n, uc)
    BY <1>1, <2>1, DecodeEncode
  <2>3. Iterate(s, at, at + n) # Rejected
    BY SMT, <2>2 DEF Decoded, Rejected, UTF8PROC_ERROR_INVALIDUTF8
  <2>4. /\ ContinuationsPresent(s, at, at + n, k) /\ PayloadAllowed(s, at, k)
        /\ Iterate(s, at, at + n) = Decoded(k, Payload(s, at, k))
    BY <1>1, <2>3 DEF Iterate
  <2>5. k = n
    BY <2>2, <2>4 DEF Decoded
  <2> QED
    BY <2>4, <2>5 DEF Accepts
<1>3. ASSUME Accepts(s, at, n) PROVE Encodes(s, at, at + n)
  <2>1. Iterate(s, at, at + n) = Decoded(n, Payload(s, at, n))
    BY <1>1, <1>3, IterateAccepts DEF Accepts
  <2>2. Iterate(s, at, at + n).step = n /\ n > 0
    BY SMT, <2>1 DEF Decoded
  <2> QED
    BY <1>1, <2>2, AcceptedEncodes
<1> QED
  BY <1>2, <1>3

LEMMA RowOfOne ==
    ASSUME NEW A, NEW s, NEW from \in Nat, NEW to \in Nat
    PROVE  Promise!InRow(<< A >>, s, from, to)
           <=> to - from = 1 /\ At(s, from) \in A
BY SMT DEF Promise!InRow, At

LEMMA RowOfTwo ==
    ASSUME NEW A, NEW B, NEW s, NEW from \in Nat, NEW to \in Nat
    PROVE  Promise!InRow(<< A, B >>, s, from, to)
           <=> to - from = 2 /\ At(s, from) \in A /\ At(s, from + 1) \in B
BY SMT DEF Promise!InRow, At

LEMMA RowOfThree ==
    ASSUME NEW A, NEW B, NEW C, NEW s, NEW from \in Nat, NEW to \in Nat
    PROVE  Promise!InRow(<< A, B, C >>, s, from, to)
           <=> /\ to - from = 3 /\ At(s, from) \in A /\ At(s, from + 1) \in B
               /\ At(s, from + 2) \in C
BY SMT DEF Promise!InRow, At

LEMMA RowOfFour ==
    ASSUME NEW A, NEW B, NEW C, NEW D, NEW s, NEW from \in Nat, NEW to \in Nat
    PROVE  Promise!InRow(<< A, B, C, D >>, s, from, to)
           <=> /\ to - from = 4 /\ At(s, from) \in A /\ At(s, from + 1) \in B
               /\ At(s, from + 2) \in C /\ At(s, from + 3) \in D
BY SMT DEF Promise!InRow, At

\* The columns of the table.
Second224 == 160 .. 191
Lead225   == 225 .. 236
Second237 == 128 .. 159
Lead238   == 238 .. 239
Second240 == 144 .. 191
Lead241   == 241 .. 243
Second244 == 128 .. 143

\* The tests utf8proc_iterate makes of single bytes, as sets of bytes.
LEMMA LeadBytes ==
    ASSUME NEW a \in Byte
    PROVE  /\ SequenceLength(a) = 1 <=> a \in Ascii
           /\ SequenceLength(a) = 2 <=> a \in Lead2
           /\ SequenceLength(a) = 3 <=> a \in Lead3
           /\ SequenceLength(a) = 4 <=> a \in Lead4
<1>1. SequenceLength(a) = 1 <=> a \in Ascii
  BY SMT DEF SequenceLength, Between, Byte, Ascii
<1>2. SequenceLength(a) = 2 <=> a \in Lead2
  BY SMT DEF SequenceLength, Between, Byte, Lead2
<1>3. SequenceLength(a) = 3 <=> a \in Lead3
  BY SMT DEF SequenceLength, Between, Byte, Lead3
<1>4. SequenceLength(a) = 4 <=> a \in Lead4
  BY SMT DEF SequenceLength, Between, Byte, Lead4
<1> QED
  BY <1>1, <1>2, <1>3, <1>4

LEMMA ContinuationByte ==
    ASSUME NEW b \in Byte
    PROVE  IsCont(b) <=> b \in Continuation
BY SMT DEF IsCont, Byte, Continuation

LEMMA OverlongThree ==
    ASSUME NEW a \in Lead3, NEW b \in Continuation, NEW c \in Continuation
    PROVE  (a % 16) * 4096 + Low6(b) * 64 + Low6(c) >= 2048
           <=> a > 224 \/ b >= 160
<1>1. a % 16 = a - 224 /\ Low6(b) = b - 128 /\ Low6(c) = c - 128
  BY SMT DEF Low6, Lead3, Continuation
<1> QED
  BY SMT, <1>1 DEF Lead3, Continuation

LEMMA SecondOfThree ==
    ASSUME NEW a \in Byte, NEW b \in Byte
    PROVE  (/\ a \in Lead3 /\ b \in Continuation
            /\ a = 237 => b <= 159
            /\ a > 224 \/ b >= 160)
           <=> \/ a \in {224} /\ b \in Second224
               \/ a \in Lead225 /\ b \in Continuation
               \/ a \in {237} /\ b \in Second237
               \/ a \in Lead238 /\ b \in Continuation
BY SMT DEF Byte, Lead3, Continuation, Second224, Lead225, Second237, Lead238

LEMMA SecondOfFour ==
    ASSUME NEW a \in Byte, NEW b \in Byte
    PROVE  (/\ a \in Lead4 /\ b \in Continuation
            /\ a = 240 => b >= 144
            /\ a = 244 => b <= 143)
           <=> \/ a \in {240} /\ b \in Second240
               \/ a \in Lead241 /\ b \in Continuation
               \/ a \in {244} /\ b \in Second244
BY SMT DEF Byte, Lead4, Continuation, Second240, Lead241, Second244

\* The bytes utf8proc_iterate accepts, by length.
LEMMA AcceptsOne ==
    ASSUME NEW s \in Seq(Byte), NEW at \in Nat, at + 1 <= Len(s),
           NEW a, a = At(s, at)
    PROVE  Accepts(s, at, 1) <=> a \in Ascii
<1>1. a \in Byte
  BY SMT, ByteAt
<1>2. Accepts(s, at, 1) <=> SequenceLength(a) = 1
  BY SMT DEF Accepts, ContinuationsPresent, PayloadAllowed
<1> QED
  BY <1>1, <1>2, LeadBytes

LEMMA AcceptsTwo ==
    ASSUME NEW s \in Seq(Byte), NEW at \in Nat, at + 2 <= Len(s),
           NEW a, a = At(s, at), NEW b, b = At(s, at + 1)
    PROVE  Accepts(s, at, 2) <=> a \in Lead2 /\ b \in Continuation
<1>1. a \in Byte /\ b \in Byte
  <2>1. at < Len(s) /\ at + 1 \in Nat /\ at + 1 < Len(s)
    BY SMT
  <2> QED
    BY <2>1, ByteAt
<1>2. Accepts(s, at, 2) <=> SequenceLength(a) = 2 /\ IsCont(b)
  BY SMT DEF Accepts, ContinuationsPresent, PayloadAllowed
<1> QED
  BY Zenon, <1>1, <1>2, LeadBytes, ContinuationByte

LEMMA AcceptsThree ==
    ASSUME NEW s \in Seq(Byte), NEW at \in Nat, at + 3 <= Len(s),
           NEW a, a = At(s, at), NEW b, b = At(s, at + 1),
           NEW c, c = At(s, at + 2)
    PROVE  Accepts(s, at, 3)
           <=> /\ \/ a \in {224} /\ b \in Second224
                  \/ a \in Lead225 /\ b \in Continuation
                  \/ a \in {237} /\ b \in Second237
                  \/ a \in Lead238 /\ b \in Continuation
               /\ c \in Continuation
<1>1. a \in Byte /\ b \in Byte /\ c \in Byte
  <2>1. /\ at < Len(s) /\ at + 1 \in Nat /\ at + 1 < Len(s)
        /\ at + 2 \in Nat /\ at + 2 < Len(s)
    BY SMT
  <2> QED
    BY <2>1, ByteAt
<1>2. PICK payload : payload = (a % 16) * 4096 + Low6(b) * 64 + Low6(c)
  OBVIOUS
<1>3. ContinuationsPresent(s, at, at + 3, 3) <=> IsCont(b) /\ IsCont(c)
  BY SMT DEF ContinuationsPresent
<1>4. PayloadAllowed(s, at, 3) <=> (a = 237 => b <= 159) /\ payload >= 2048
  <2>1. Payload(s, at, 3) = payload
    BY SMT, <1>2, PayloadByLength
  <2> QED
    BY SMT, <2>1 DEF PayloadAllowed
<1>5. Accepts(s, at, 3) <=> /\ SequenceLength(a) = 3
                            /\ IsCont(b) /\ IsCont(c)
                            /\ a = 237 => b <= 159
                            /\ payload >= 2048
  BY SMT, <1>3, <1>4 DEF Accepts
<1>6. SequenceLength(a) = 3 <=> a \in Lead3
  BY Zenon, <1>1, LeadBytes
<1>7. (IsCont(b) <=> b \in Continuation) /\ (IsCont(c) <=> c \in Continuation)
  BY Zenon, <1>1, ContinuationByte
<1>8. ASSUME a \in Lead3, b \in Continuation, c \in Continuation
      PROVE  payload >= 2048 <=> a > 224 \/ b >= 160
  BY SMT, <1>2, <1>8, OverlongThree
<1> QED
  BY SMT, <1>1, <1>5, <1>6, <1>7, <1>8, SecondOfThree

LEMMA AcceptsFour ==
    ASSUME NEW s \in Seq(Byte), NEW at \in Nat, at + 4 <= Len(s),
           NEW a, a = At(s, at), NEW b, b = At(s, at + 1),
           NEW c, c = At(s, at + 2), NEW d, d = At(s, at + 3)
    PROVE  Accepts(s, at, 4)
           <=> /\ \/ a \in {240} /\ b \in Second240
                  \/ a \in Lead241 /\ b \in Continuation
                  \/ a \in {244} /\ b \in Second244
               /\ c \in Continuation
               /\ d \in Continuation
<1>1. a \in Byte /\ b \in Byte /\ c \in Byte /\ d \in Byte
  <2>1. /\ at < Len(s) /\ at + 1 \in Nat /\ at + 1 < Len(s)
        /\ at + 2 \in Nat /\ at + 2 < Len(s) /\ at + 3 \in Nat /\ at + 3 < Len(s)
    BY SMT
  <2> QED
    BY <2>1, ByteAt
<1>2. ContinuationsPresent(s, at, at + 4, 4)
      <=> IsCont(b) /\ IsCont(c) /\ IsCont(d)
  BY SMT DEF ContinuationsPresent
<1>3. PayloadAllowed(s, at, 4)
      <=> (a = 240 => b >= 144) /\ (a = 244 => b <= 143)
  BY SMT DEF PayloadAllowed
<1>4. Accepts(s, at, 4) <=> /\ SequenceLength(a) = 4
                            /\ IsCont(b) /\ IsCont(c) /\ IsCont(d)
                            /\ a = 240 => b >= 144
                            /\ a = 244 => b <= 143
  BY SMT, <1>2, <1>3 DEF Accepts
<1>5. SequenceLength(a) = 4 <=> a \in Lead4
  BY Zenon, <1>1, LeadBytes
<1>6. /\ IsCont(b) <=> b \in Continuation
      /\ IsCont(c) <=> c \in Continuation
      /\ IsCont(d) <=> d \in Continuation
  BY Zenon, <1>1, ContinuationByte
<1> QED
  BY SMT, <1>1, <1>4, <1>5, <1>6, SecondOfFour

\* The rows of the table, one by one.
LEMMA TableRows ==
    ASSUME NEW s, NEW at \in Nat, NEW to \in Nat, NEW n, n = to - at,
           NEW a, a = At(s, at), NEW b, b = At(s, at + 1),
           NEW c, c = At(s, at + 2), NEW d, d = At(s, at + 3)
    PROVE  (\E row \in Promise!Table : Promise!InRow(row, s, at, to))
           <=> \/ n = 1 /\ a \in Ascii
               \/ n = 2 /\ a \in Lead2 /\ b \in Continuation
               \/ n = 3 /\ a \in {224} /\ b \in Second224 /\ c \in Continuation
               \/ n = 3 /\ a \in Lead225 /\ b \in Continuation /\ c \in Continuation
               \/ n = 3 /\ a \in {237} /\ b \in Second237 /\ c \in Continuation
               \/ n = 3 /\ a \in Lead238 /\ b \in Continuation /\ c \in Continuation
               \/ /\ n = 4 /\ a \in {240} /\ b \in Second240
                  /\ c \in Continuation /\ d \in Continuation
               \/ /\ n = 4 /\ a \in Lead241 /\ b \in Continuation
                  /\ c \in Continuation /\ d \in Continuation
               \/ /\ n = 4 /\ a \in {244} /\ b \in Second244
                  /\ c \in Continuation /\ d \in Continuation
<1> DEFINE C == Continuation
           L224 == {224}
           L237 == {237}
           L240 == {240}
           L244 == {244}
<1>1. Promise!Table = { << Ascii >>, << Lead2, C >>,
                        << L224, Second224, C >>, << Lead225, C, C >>,
                        << L237, Second237, C >>, << Lead238, C, C >>,
                        << L240, Second240, C, C >>, << Lead241, C, C, C >>,
                        << L244, Second244, C, C >> }
  BY SMT DEF Promise!Table, Promise!Trail, Continuation, Ascii, Lead2, Second224,
         Lead225, Second237, Lead238, Second240, Lead241, Second244
<1> HIDE DEF C, L224, L237, L240, L244
<1>2. (\E row \in Promise!Table : Promise!InRow(row, s, at, to))
      <=> \/ Promise!InRow(<< Ascii >>, s, at, to)
          \/ Promise!InRow(<< Lead2, C >>, s, at, to)
          \/ Promise!InRow(<< L224, Second224, C >>, s, at, to)
          \/ Promise!InRow(<< Lead225, C, C >>, s, at, to)
          \/ Promise!InRow(<< L237, Second237, C >>, s, at, to)
          \/ Promise!InRow(<< Lead238, C, C >>, s, at, to)
          \/ Promise!InRow(<< L240, Second240, C, C >>, s, at, to)
          \/ Promise!InRow(<< Lead241, C, C, C >>, s, at, to)
          \/ Promise!InRow(<< L244, Second244, C, C >>, s, at, to)
  BY Zenon, <1>1
<1>3. Promise!InRow(<< Ascii >>, s, at, to) <=> n = 1 /\ a \in Ascii
  BY SMT, RowOfOne
<1>4. Promise!InRow(<< Lead2, C >>, s, at, to)
      <=> n = 2 /\ a \in Lead2 /\ b \in C
  BY SMT, RowOfTwo
<1>5. \A A, B : Promise!InRow(<< A, B, C >>, s, at, to)
                <=> n = 3 /\ a \in A /\ b \in B /\ c \in C
  BY Zenon, RowOfThree
<1>6. \A A, B : Promise!InRow(<< A, B, C, C >>, s, at, to)
                <=> n = 4 /\ a \in A /\ b \in B /\ c \in C /\ d \in C
  BY Zenon, RowOfFour
<1>7. (\E row \in Promise!Table : Promise!InRow(row, s, at, to))
      <=> \/ n = 1 /\ a \in Ascii
          \/ n = 2 /\ a \in Lead2 /\ b \in C
          \/ n = 3 /\ a \in L224 /\ b \in Second224 /\ c \in C
          \/ n = 3 /\ a \in Lead225 /\ b \in C /\ c \in C
          \/ n = 3 /\ a \in L237 /\ b \in Second237 /\ c \in C
          \/ n = 3 /\ a \in Lead238 /\ b \in C /\ c \in C
          \/ n = 4 /\ a \in L240 /\ b \in Second240 /\ c \in C /\ d \in C
          \/ n = 4 /\ a \in Lead241 /\ b \in C /\ c \in C /\ d \in C
          \/ n = 4 /\ a \in L244 /\ b \in Second244 /\ c \in C /\ d \in C
  BY Zenon, <1>2, <1>3, <1>4, <1>5, <1>6
<1> QED
  BY SMT, <1>7 DEF C, L224, L237, L240, L244

\* utf8proc's definition of a character and the standard's are the same.
LEMMA EncodesRow ==
    ASSUME NEW s \in Seq(Byte), NEW at \in Nat, NEW to \in Nat,
           at < to, to <= Len(s)
    PROVE  Encodes(s, at, to)
           <=> \E row \in Promise!Table : Promise!InRow(row, s, at, to)
<1>1. PICK n, a, b, c, d : n = to - at /\ a = At(s, at) /\ b = At(s, at + 1)
                           /\ c = At(s, at + 2) /\ d = At(s, at + 3)
  OBVIOUS
<1>2. n \in Nat /\ at + n = to /\ at + n <= Len(s)
  BY SMT, <1>1
<1>3. Encodes(s, at, to) <=> n \in 1 .. 4 /\ Accepts(s, at, n)
  <2>1. Encodes(s, at, to) => n \in 1 .. 4
    BY SMT, <1>1 DEF Encodes
  <2>2. n \in 1 .. 4 => (Encodes(s, at, to) <=> Accepts(s, at, n))
    BY SMT, <1>2, EncodesAccepts
  <2> QED
    BY SMT, <2>1, <2>2
<1>4. /\ n = 1 => (Accepts(s, at, n) <=> a \in Ascii)
      /\ n = 2 => (Accepts(s, at, n) <=> a \in Lead2 /\ b \in Continuation)
      /\ n = 3 => (Accepts(s, at, n)
                      <=> /\ \/ a \in {224} /\ b \in Second224
                             \/ a \in Lead225 /\ b \in Continuation
                             \/ a \in {237} /\ b \in Second237
                             \/ a \in Lead238 /\ b \in Continuation
                          /\ c \in Continuation)
      /\ n = 4 => (Accepts(s, at, n)
                      <=> /\ \/ a \in {240} /\ b \in Second240
                             \/ a \in Lead241 /\ b \in Continuation
                             \/ a \in {244} /\ b \in Second244
                          /\ c \in Continuation /\ d \in Continuation)
  BY SMT, <1>1, <1>2, AcceptsOne, AcceptsTwo, AcceptsThree, AcceptsFour
<1>5. n \in 1 .. 4 <=> n = 1 \/ n = 2 \/ n = 3 \/ n = 4
  BY SMT, <1>2
<1>6. (\E row \in Promise!Table : Promise!InRow(row, s, at, to))
      <=> \/ n = 1 /\ a \in Ascii
          \/ n = 2 /\ a \in Lead2 /\ b \in Continuation
          \/ n = 3 /\ a \in {224} /\ b \in Second224 /\ c \in Continuation
          \/ n = 3 /\ a \in Lead225 /\ b \in Continuation /\ c \in Continuation
          \/ n = 3 /\ a \in {237} /\ b \in Second237 /\ c \in Continuation
          \/ n = 3 /\ a \in Lead238 /\ b \in Continuation /\ c \in Continuation
          \/ /\ n = 4 /\ a \in {240} /\ b \in Second240
             /\ c \in Continuation /\ d \in Continuation
          \/ /\ n = 4 /\ a \in Lead241 /\ b \in Continuation
             /\ c \in Continuation /\ d \in Continuation
          \/ /\ n = 4 /\ a \in {244} /\ b \in Second244
             /\ c \in Continuation /\ d \in Continuation
  BY SMT, <1>1, TableRows
<1> QED
  BY SMT, <1>3, <1>4, <1>5, <1>6

-----------------------------------------------------------------------------
(* Well-formed by the table is the same as divisible into encodings.      *)

\* The equation of WellFormed's recursive function.
WholeAt(f, s, k) ==
    \/ k = 0
    \/ \E n \in 1 .. 4 :
          /\ n <= k
          /\ \E row \in Promise!Table : Promise!InRow(row, s, k - n, k)
          /\ f[k - n]

Whole(f, s, m) == f = [k \in 0 .. m |-> WholeAt(f, s, k)]

LEMMA WellFormedWhole ==
    ASSUME NEW s, NEW m
    PROVE  Promise!WellFormed(s, m) = (CHOOSE f : Whole(f, s, m))[m]
BY Zenon DEF Promise!WellFormed, Whole, WholeAt

\* The first k bytes are whole encodings.
Tilable(s, k) == \E cuts \in SUBSET (0 .. k) : Tiles(cuts, s, k)

\* What tiles a string tiles it up to each of its cuts.
LEMMA TilesPrefix ==
    ASSUME NEW s, NEW k \in Nat, NEW cuts \in SUBSET (0 .. k), Tiles(cuts, s, k),
           NEW j \in cuts
    PROVE  Tiles(cuts \cap (0 .. j), s, j)
<1>1. j \in Nat /\ 0 \in cuts /\ \A c \in cuts : c \in Nat
  <2>1. \A c \in 0 .. k : c \in Nat
    BY SMT
  <2> QED
    BY <2>1 DEF Tiles
<1>2. ASSUME NEW a \in cuts \cap (0 .. j), NEW b \in cuts \cap (0 .. j), a < b,
             \A c \in cuts \cap (0 .. j) : c <= a \/ b <= c
      PROVE  Encodes(s, a, b)
  <2>1. ASSUME NEW c \in cuts PROVE c <= a \/ b <= c
    <3>1. CASE c \in 0 .. j
      BY <1>2, <3>1
    <3>2. CASE c \notin 0 .. j
      BY SMT, <1>1, <3>2
    <3> QED
      BY <3>1, <3>2
  <2> QED
    BY <1>2, <2>1 DEF Tiles
<1>3. 0 \in 0 .. j /\ j \in 0 .. j
  BY SMT, <1>1
<1> QED
  BY <1>1, <1>2, <1>3 DEF Tiles

\* Cuts next to each other enclose a character.
LEMMA CutBefore ==
    ASSUME NEW s, NEW k \in Nat, NEW cuts \in SUBSET (0 .. k), Tiles(cuts, s, k),
           NEW x \in cuts, x # 0
    PROVE  \E y \in cuts : y < x /\ Encodes(s, y, x)
<1> DEFINE before == {c \in cuts : c < x}
<1>1. 0 \in cuts /\ \A c \in cuts : c \in Nat
  <2>1. \A c \in 0 .. k : c \in Nat
    BY SMT
  <2> QED
    BY <2>1 DEF Tiles
<1>2. before \in SUBSET (0 .. k) /\ before # {}
  <2>1. 0 < x
    BY SMT, <1>1
  <2> QED
    BY <1>1, <2>1
<1>3. PICK y \in before : \A c \in before : c <= y
  BY <1>2, Greatest
<1>4. \A c \in cuts : c <= y \/ x <= c
  <2>1. \A c \in cuts : c < x \/ x <= c
    BY SMT, <1>1
  <2> QED
    BY <1>3, <2>1
<1>5. Encodes(s, y, x)
  BY <1>3, <1>4 DEF Tiles
<1> QED
  BY <1>5

LEMMA CutAfter ==
    ASSUME NEW s, NEW k \in Nat, NEW cuts \in SUBSET (0 .. k), Tiles(cuts, s, k),
           NEW y \in cuts, y # k
    PROVE  \E z \in cuts : /\ y < z /\ Encodes(s, y, z)
                          /\ \A c \in cuts : c <= y \/ z <= c
<1> DEFINE after == {c \in cuts : y < c}
<1>1. k \in cuts /\ (\A c \in cuts : c \in Nat) /\ y < k
  <2>1. \A c \in 0 .. k : c \in Nat /\ (c # k => c < k)
    BY SMT
  <2> QED
    BY <2>1 DEF Tiles
<1>2. after \subseteq Nat /\ after # {}
  BY <1>1
<1>3. PICK z \in after : \A c \in after : z <= c
  BY <1>2, Least
<1>4. \A c \in cuts : c <= y \/ z <= c
  <2>1. \A c \in cuts : c <= y \/ y < c
    BY SMT, <1>1
  <2> QED
    BY <1>3, <2>1
<1>5. Encodes(s, y, z)
  BY <1>3, <1>4 DEF Tiles
<1> QED
  BY <1>4, <1>5

\* The last character of what is tiled.
LEMMA TilableStep ==
    ASSUME NEW s, NEW k \in Nat
    PROVE  Tilable(s, k) <=> \/ k = 0
                             \/ \E n \in 1 .. 4 : /\ n <= k
                                                  /\ Encodes(s, k - n, k)
                                                  /\ Tilable(s, k - n)
<1>1. ASSUME k = 0 PROVE Tilable(s, k)
  <2>1. {0} \in SUBSET (0 .. 0) /\ Tiles({0}, s, 0)
    BY SMT, EmptyTiling
  <2> QED
    BY <1>1, <2>1 DEF Tilable
<1>2. ASSUME NEW n \in 1 .. 4, n <= k, Encodes(s, k - n, k), Tilable(s, k - n)
      PROVE  Tilable(s, k)
  <2>1. PICK j \in Nat : j = k - n /\ j < k
    BY SMT, <1>2
  <2>2. PICK cuts \in SUBSET (0 .. j) : Tiles(cuts, s, j)
    BY <1>2, <2>1 DEF Tilable
  <2>3. Encodes(s, j, k)
    BY <1>2, <2>1
  <2>4. Tiles(cuts \cup {k}, s, k)
    BY <2>1, <2>2, <2>3, TilesExtend
  <2>5. cuts \cup {k} \in SUBSET (0 .. k)
    <3>1. \A c \in 0 .. j : c \in 0 .. k
      BY SMT, <2>1
    <3>2. k \in 0 .. k
      BY SMT
    <3> QED
      BY <3>1, <3>2
  <2> QED
    BY <2>4, <2>5 DEF Tilable
<1>3. ASSUME Tilable(s, k), k # 0
      PROVE  \E n \in 1 .. 4 : n <= k /\ Encodes(s, k - n, k) /\ Tilable(s, k - n)
  <2>1. PICK cuts \in SUBSET (0 .. k) : Tiles(cuts, s, k)
    BY <1>3 DEF Tilable
  <2>2. 0 \in cuts /\ k \in cuts
    BY <2>1 DEF Tiles
  <2>3. PICK j \in cuts : j < k /\ Encodes(s, j, k)
    BY <1>3, <2>1, <2>2, CutBefore
  <2>5. j \in Nat
    BY SMT
  <2>7. Encodes(s, j, k)
    BY <2>3
  <2>8. PICK n : n = k - j
    OBVIOUS
  <2>9. n \in 1 .. 4 /\ n <= k /\ k - n = j
    BY SMT, <2>3, <2>5, <2>8 DEF Encodes
  <2>10. Tilable(s, j)
    <3>1. cuts \cap (0 .. j) \in SUBSET (0 .. j)
      OBVIOUS
    <3> QED
      BY <2>1, <2>5, <3>1, TilesPrefix DEF Tilable
  <2> QED
    BY <2>7, <2>9, <2>10
<1> QED
  BY <1>1, <1>2, <1>3

\* A string of bytes is well formed by the table exactly when it divides into
\* encodings of scalar values.
LEMMA WellFormedTilable ==
    ASSUME NEW s \in Seq(Byte), NEW m \in 0 .. Len(s)
    PROVE  Promise!WellFormed(s, m) <=> Tilable(s, m)
<1> DEFINE f == CHOOSE h : Whole(h, s, m)
           g == [k \in 0 .. m |-> Tilable(s, k)]
<1>0. m \in Nat /\ Len(s) \in Nat /\ m <= Len(s) /\ m \in 0 .. m
  BY SMT
<1>1. ASSUME NEW k \in 0 .. m, NEW n \in 1 .. 4, n <= k
      PROVE  /\ k - n \in 0 .. m
             /\ Encodes(s, k - n, k)
                  <=> \E row \in Promise!Table : Promise!InRow(row, s, k - n, k)
  <2>1. /\ k - n \in Nat /\ k \in Nat /\ k - n < k /\ k <= Len(s)
        /\ k - n \in 0 .. m
    BY SMT, <1>0, <1>1
  <2> QED
    BY <2>1, EncodesRow
<1>2. Whole(g, s, m)
  <2>1. g = [k \in 0 .. m |-> Tilable(s, k)]
    OBVIOUS
  <2>2. \A k \in 0 .. m : g[k] = Tilable(s, k)
    OBVIOUS
  <2> HIDE DEF g
  <2>3. ASSUME NEW k \in 0 .. m PROVE Tilable(s, k) = WholeAt(g, s, k)
    <3>1. k \in Nat
      BY SMT
    <3>2. \A n \in 1 .. 4 : n <= k => (g[k - n] <=> Tilable(s, k - n))
      BY <1>1, <2>2
    <3>3. Tilable(s, k) <=> WholeAt(g, s, k)
      BY Zenon, <1>1, <3>1, <3>2, TilableStep DEF WholeAt
    <3>4. Tilable(s, k) \in BOOLEAN /\ WholeAt(g, s, k) \in BOOLEAN
      BY Zenon DEF Tilable, WholeAt
    <3> QED
      BY <3>3, <3>4
  <2> QED
    BY Zenon, <2>1, <2>3 DEF Whole
<1>3. Whole(f, s, m)
  BY Zenon, <1>2
<1> HIDE DEF f, g
<1>4. ASSUME NEW k \in 0 .. m
      PROVE  f[k] <=> \/ k = 0
                      \/ \E n \in 1 .. 4 :
                            /\ n <= k
                            /\ Encodes(s, k - n, k)
                            /\ f[k - n]
  <2>1. f[k] = WholeAt(f, s, k)
    BY Zenon, <1>3 DEF Whole
  <2> QED
    BY Zenon, <1>1, <2>1 DEF WholeAt
<1>5. ASSUME NEW k \in 0 .. m PROVE f[k] <=> Tilable(s, k)
  <2> DEFINE Wrong == {i \in 0 .. m : ~ (f[i] <=> Tilable(s, i))}
  <2>1. SUFFICES ASSUME Wrong # {} PROVE FALSE
    BY Zenon
  <2>2. Wrong \subseteq Nat
    <3>1. \A i \in 0 .. m : i \in Nat
      BY SMT
    <3> QED
      BY <3>1
  <2>3. PICK i \in Wrong : \A j \in Wrong : i <= j
    BY <2>1, <2>2, Least
  <2>4. i \in 0 .. m /\ i \in Nat /\ ~ (f[i] <=> Tilable(s, i))
    BY <2>2
  <2>5. ASSUME NEW n \in 1 .. 4, n <= i PROVE f[i - n] <=> Tilable(s, i - n)
    <3>1. i - n \in 0 .. m /\ ~ (i <= i - n)
      BY SMT, <2>4, <2>5
    <3>2. i - n \notin Wrong
      BY <2>3, <3>1
    <3> QED
      BY Zenon, <3>1, <3>2
  <2> HIDE DEF Wrong
  <2>6. f[i] <=> Tilable(s, i)
    BY Zenon, <1>4, <2>4, <2>5, TilableStep
  <2> QED
    BY <2>4, <2>6
<1>6. Promise!WellFormed(s, m) = f[m]
  BY WellFormedWhole DEF f
<1> QED
  BY <1>0, <1>5, <1>6

-----------------------------------------------------------------------------
\* At most one character starts at a place.
LEMMA EncodesOnce ==
    ASSUME NEW s \in Seq(Byte), NEW y \in Nat, NEW x \in Nat, NEW z \in Nat,
           x <= Len(s), z <= Len(s), Encodes(s, y, x), Encodes(s, y, z)
    PROVE  x = z
<1>1. Len(s) \in Nat
  OBVIOUS
<1>2. ASSUME NEW to \in Nat, to <= Len(s), Encodes(s, y, to)
      PROVE  Iterate(s, y, Len(s)).step = to - y
  <2>1. PICK uc : /\ uc = Payload(s, y, to - y)
                  /\ to - y \in 1 .. 4
                  /\ uc \in Scalar
                  /\ Len(EncodeChar(uc)) = to - y
                  /\ Stands(s, y, EncodeChar(uc))
    BY <1>2 DEF Encodes
  <2>2. y + Len(EncodeChar(uc)) <= Len(s)
    BY SMT, <1>1, <1>2, <2>1
  <2>3. Iterate(s, y, Len(s)) = Decoded(Len(EncodeChar(uc)), uc)
    BY <1>1, <2>1, <2>2, DecodeEncode
  <2> QED
    BY <2>1, <2>3 DEF Decoded
<1>3. x - y = z - y
  BY <1>2
<1> QED
  BY SMT, <1>3

\* Nothing that tiles a string misses a character's start, and there is no way
\* past a defect.
LEMMA DefectStops ==
    ASSUME NEW s \in Seq(Byte), NEW m \in 0 .. Len(s), NEW q \in Nat, q < m,
           Tilable(s, q), \A to \in q + 1 .. m : ~ Encodes(s, q, to)
    PROVE  ~ Tilable(s, m)
<1> SUFFICES ASSUME Tilable(s, m) PROVE FALSE
  OBVIOUS
<1>0. Len(s) \in Nat /\ m \in Nat /\ m <= Len(s)
  BY SMT
<1>1. PICK cuts \in SUBSET (0 .. q) : Tiles(cuts, s, q)
  BY DEF Tilable
<1>2. PICK all \in SUBSET (0 .. m) : Tiles(all, s, m)
  BY DEF Tilable
<1>3. \A c \in 0 .. q : c \in Nat /\ c # m /\ c <= Len(s)
  BY SMT, <1>0
<1>4. \A c \in 0 .. m : c \in Nat /\ c <= Len(s)
  BY SMT, <1>0
<1>5. cuts \subseteq all
  <2> DEFINE Missed == cuts \ all
  <2> SUFFICES ASSUME Missed # {} PROVE FALSE
    OBVIOUS
  <2>1. Missed \subseteq Nat
    BY <1>3
  <2>2. PICK x \in Missed : \A c \in Missed : x <= c
    BY <2>1, Least
  <2>3. x # 0
    BY <1>2 DEF Tiles
  <2>4. PICK y \in cuts : y < x /\ Encodes(s, y, x)
    BY <1>1, <2>2, <2>3, CutBefore
  <2>5. y \in all /\ y # m
    <3>1. x \in Nat /\ y \in Nat /\ y # m
      BY <1>3
    <3>2. ~ (x <= y)
      BY SMT, <2>4, <3>1
    <3> QED
      BY <2>2, <3>1, <3>2
  <2>6. PICK z \in all : y < z /\ Encodes(s, y, z)
    BY <1>0, <1>2, <2>5, CutAfter
  <2>7. x = z
    <3>1. /\ y \in Nat /\ x \in Nat /\ z \in Nat
          /\ x <= Len(s) /\ z <= Len(s)
      BY <1>3, <1>4
    <3> QED
      BY <2>4, <2>6, <3>1, EncodesOnce
  <2> QED
    BY <2>7
<1>6. q \in all /\ q # m
  <2>1. q # m
    BY SMT, <1>0
  <2> QED
    BY <1>1, <1>5, <2>1 DEF Tiles
<1>7. PICK z \in all : q < z /\ Encodes(s, q, z)
  BY <1>0, <1>2, <1>6, CutAfter
<1>8. z \in q + 1 .. m
  <2>1. z \in 0 .. m
    OBVIOUS
  <2> QED
    BY SMT, <1>0, <1>7, <2>1
<1> QED
  BY <1>7, <1>8

LEMMA LeadStartsOnly ==
    ASSUME NEW a \in Byte, a \in Ascii \/ a \in Lead2 \/ a \in Lead3 \/ a \in Lead4
    PROVE  a \notin Continuation
BY SMT DEF Ascii, Lead2, Lead3, Lead4, Continuation

\* The first byte of a character is none of the bytes that continue one, and
\* all its others are.
LEMMA EncodesBytes ==
    ASSUME NEW s \in Seq(Byte), NEW y \in Nat, NEW z \in Nat, z <= Len(s),
           Encodes(s, y, z)
    PROVE  /\ At(s, y) \notin Continuation
           /\ \A c \in y + 1 .. z - 1 : At(s, c) \in Continuation
<1>0. Len(s) \in Nat
  OBVIOUS
<1>1. PICK n \in 1 .. 4 : n = z - y /\ y + n = z
  BY SMT DEF Encodes
<1>2. Accepts(s, y, n)
  BY <1>1, EncodesAccepts
<1>3. At(s, y) \notin Continuation
  <2>1. y < Len(s)
    BY SMT, <1>0, <1>1
  <2>2. PICK a \in Byte : a = At(s, y)
    BY <2>1, ByteAt
  <2>3. SequenceLength(a) = n
    BY <1>2, <2>2 DEF Accepts
  <2>4. a \in Ascii \/ a \in Lead2 \/ a \in Lead3 \/ a \in Lead4
    <3>1. n = 1 \/ n = 2 \/ n = 3 \/ n = 4
      BY SMT
    <3> QED
      BY <2>3, <3>1, LeadBytes
  <2>5. a \notin Continuation
    BY <2>4, LeadStartsOnly
  <2> QED
    BY <2>2, <2>5
<1>4. ASSUME NEW c \in y + 1 .. z - 1 PROVE At(s, c) \in Continuation
  <2>1. PICK i \in 1 .. 3 : i < n /\ y + i = c
    <3>1. c - y \in 1 .. 3 /\ c - y < n /\ y + (c - y) = c
      BY SMT, <1>1
    <3> QED
      BY <3>1
  <2>2. IsCont(At(s, c))
    BY <1>2, <2>1 DEF Accepts, ContinuationsPresent
  <2>3. c \in Nat /\ c < Len(s)
    BY SMT, <1>0
  <2> QED
    BY <2>2, <2>3, ByteAt, ContinuationByte
<1> QED
  BY <1>3, <1>4

LEMMA SameCardinality == ASSUME NEW S PROVE Promise!Cardinality(S) = Cardinality(S)
BY Zenon DEF Promise!Cardinality, Cardinality

\* A tiling has one cut more than the string has characters.
LEMMA TilesCount ==
    ASSUME NEW s \in Seq(Byte), NEW m \in 0 .. Len(s),
           NEW cuts \in SUBSET (0 .. m), Tiles(cuts, s, m)
    PROVE  Cardinality(cuts) = Promise!Characters(s, m) + 1
<1> DEFINE Starts == {i \in 1 .. m : s[i] \notin Continuation}
           Inner  == cuts \ {m}
           up     == [c \in Inner |-> c + 1]
<1>0. Len(s) \in Nat /\ m \in Nat /\ m <= Len(s)
  BY SMT
<1>1. /\ 0 \in cuts /\ m \in cuts
      /\ \A c \in cuts : c \in Nat /\ c <= m /\ c <= Len(s) /\ (c # m => c < m)
  <2>1. \A c \in 0 .. m : /\ c \in Nat /\ c <= m /\ c <= Len(s)
                         /\ c # m => c < m
    BY SMT, <1>0
  <2> QED
    BY <2>1 DEF Tiles
<1>2. ASSUME NEW c \in Inner PROVE c + 1 \in Starts
  <2>1. PICK z \in cuts : c < z /\ Encodes(s, c, z)
    BY <1>0, CutAfter
  <2>2. At(s, c) \notin Continuation
    BY <1>1, <2>1, EncodesBytes
  <2>3. c + 1 \in 1 .. m
    <3>1. c \in Nat /\ c < m
      BY <1>1
    <3> QED
      BY SMT, <1>0, <3>1
  <2> QED
    BY <2>2, <2>3 DEF At
<1>3. ASSUME NEW i \in Starts PROVE \E c \in Inner : i = c + 1
  <2>1. PICK c \in Nat : i = c + 1 /\ c < m
    <3>1. i \in 1 .. m
      OBVIOUS
    <3>2. i - 1 \in Nat /\ i = (i - 1) + 1 /\ i - 1 < m
      BY SMT, <1>0, <3>1
    <3> QED
      BY <3>2
  <2> SUFFICES ASSUME c \notin cuts PROVE FALSE
    BY <2>1, SMT
  <2> DEFINE before == {x \in cuts : x < c}
  <2>2. before \in SUBSET (0 .. m) /\ before # {}
    <3>1. 0 < c
      BY SMT, <1>1
    <3> QED
      BY <1>1, <3>1
  <2>3. PICK y \in before : \A x \in before : x <= y
    BY <1>0, <2>2, Greatest
  <2>4. y \in cuts /\ y < c /\ y # m
    <3>1. y \in Nat /\ y < c
      BY <1>1
    <3> QED
      BY SMT, <1>0, <2>1, <3>1
  <2>5. PICK z \in cuts : y < z /\ Encodes(s, y, z)
    BY <1>0, <2>4, CutAfter
  <2>6. c \in y + 1 .. z - 1
    <3>1. z \in Nat /\ y \in Nat /\ z # c
      BY <1>1
    <3>2. z < c => z <= y
      BY <2>3
    <3> HIDE DEF before
    <3> QED
      BY SMT, <2>4, <2>5, <3>1, <3>2
  <2>7. At(s, c) \in Continuation
    BY <1>1, <2>4, <2>5, <2>6, EncodesBytes
  <2> QED
    BY <2>1, <2>7 DEF At
<1>4. up \in Bijection(Inner, Starts)
  <2>1. ASSUME NEW a \in Inner, NEW b \in Inner, a + 1 = b + 1 PROVE a = b
    <3>1. a \in Nat /\ b \in Nat
      BY <1>1
    <3> QED
      BY SMT, <2>1, <3>1
  <2> HIDE DEF Starts, Inner
  <2>0. \A c \in Inner : up[c] = c + 1
    OBVIOUS
  <2>2. up \in Surjection(Inner, Starts)
    BY <1>2, <1>3 DEF Surjection
  <2>3. up \in [Inner -> Starts]
    BY <1>2
  <2> HIDE DEF up
  <2>4. up \in Injection(Inner, Starts)
    BY <2>0, <2>1, <2>3 DEF Injection, IsInjective
  <2> QED
    BY <2>2, <2>4 DEF Bijection
<1>5. IsFiniteSet(cuts) /\ IsFiniteSet(Inner)
  <2>1. IsFiniteSet(0 .. m)
    BY <1>0, FS_Interval, SMT
  <2> QED
    BY <2>1, FS_Subset
<1>6. Cardinality(Inner) = Cardinality(Starts)
  <2> HIDE DEF Starts, Inner, up
  <2> QED
    BY <1>4, <1>5, FS_Bijection DEF ExistsBijection
<1>7. Cardinality(cuts) = Cardinality(Inner) + 1
  <2>1. /\ Cardinality(Inner) = Cardinality(cuts) - 1
        /\ Cardinality(cuts) \in Nat
    BY <1>1, <1>5, FS_RemoveElement, FS_CardinalityType
  <2> HIDE DEF Inner
  <2> QED
    BY SMT, <2>1
<1>8. Promise!Characters(s, m) = Cardinality(Starts)
  <2>1. Promise!Trail = Continuation
    BY Zenon DEF Promise!Trail, Continuation
  <2>2. {i \in 1 .. m : s[i] \notin Promise!Trail} = Starts
    BY <2>1
  <2> QED
    BY Zenon, <2>2, SameCardinality DEF Promise!Characters
<1> HIDE DEF Starts, Inner
<1> QED
  BY <1>6, <1>7, <1>8

-----------------------------------------------------------------------------
(* Every step of the loops is a step of the promise, or none.              *)

LEMMA PhaseByPc ==
    /\ pc = "idle"     => Phase = "idle"
    /\ pc = "loop"     => Phase = "asked"
    /\ pc = "returned" => Phase = "answered"
BY Zenon DEF Phase

LEMMA PhaseByPcNext ==
    /\ pc' = "idle"     => Phase' = "idle"
    /\ pc' = "loop"     => Phase' = "asked"
    /\ pc' = "returned" => Phase' = "answered"
BY Zenon DEF Phase

LEMMA InitPromise == Init => Promise!Init
<1> SUFFICES ASSUME Init PROVE Promise!Init
  OBVIOUS
<1>1. Phase = "idle"
  BY PhaseByPc DEF Init
<1>2. Question = Promise!Nothing
  BY Zenon DEF Init, Question, Promise!Nothing
<1> QED
  BY <1>1, <1>2 DEF Init, Promise!Init, OK

LEMMA EnterPromise ==
    ASSUME NEW usable \in BOOLEAN, NEW isCount \in BOOLEAN,
           NEW b \in Memory \cup {NULL}, NEW n \in Nat,
           usable /\ n <= LONG_MAX => b \in Memory /\ n <= Len(b),
           ~ usable => b = NULL \/ isCount,
           Enter(usable, isCount, b, n)
    PROVE  Promise!Ask \/ Promise!Refuse
<1>1. /\ pc = "idle"
      /\ counting' = isCount /\ bytes' = b /\ length' = n /\ count' = count
      /\ IF usable /\ n <= LONG_MAX
         THEN pc' = "loop" /\ status' = status
         ELSE pc' = "returned" /\ status' = IF usable THEN ERROR ELSE INVALID
  BY DEF Enter, FitsUtf8procLength
<1>2. Question' = [count |-> isCount, bytes |-> b, length |-> n]
  BY <1>1 DEF Question
<1>3. Promise!IsQuestion(Question')
  BY Zenon, <1>2 DEF Promise!IsQuestion
<1>4. Phase = "idle"
  BY <1>1, PhaseByPc
<1>5. CASE usable /\ n <= LONG_MAX
  <2>1. Phase' = "asked" /\ status' = status
    BY Zenon, <1>1, <1>5, PhaseByPcNext
  <2>2. b # NULL /\ n <= Len(b)
    BY <1>5, NullAssumption
  <2> QED
    BY <1>1, <1>2, <1>3, <1>4, <2>1, <2>2 DEF Promise!Ask
<1>6. CASE ~ (usable /\ n <= LONG_MAX)
  <2>1. Phase' = "answered" /\ status' = IF usable THEN ERROR ELSE INVALID
    BY Zenon, <1>1, <1>6, PhaseByPcNext
  <2>2. usable => n > LONG_MAX
    BY SMT, <1>6, LimitAssumption
  <2> QED
    BY <1>1, <1>2, <1>3, <1>4, <2>1, <2>2 DEF Promise!Refuse, ERROR, INVALID
<1> QED
  BY <1>5, <1>6

LEMMA CallPromise == ASSUME Call PROVE Promise!Ask \/ Promise!Refuse
<1>0. TRUE \in BOOLEAN /\ FALSE \in BOOLEAN /\ 0 \in Nat
  BY SMT
<1>1. ASSUME NEW m \in Memory, NEW n \in Lengths(m),
             NEW usable \in BOOLEAN, NEW isCount \in BOOLEAN,
             usable \/ isCount, Enter(usable, isCount, m, n)
      PROVE  Promise!Ask \/ Promise!Refuse
  <2>1. n \in Nat /\ (usable /\ n <= LONG_MAX => m \in Memory /\ n <= Len(m))
    BY LengthsBound
  <2> QED
    BY Zenon, <1>1, <2>1, EnterPromise
<1>2. ASSUME NEW m \in Memory, IsCString(m),
             NEW usable \in BOOLEAN, NEW isCount \in BOOLEAN,
             usable \/ isCount, Enter(usable, isCount, m, StrLen(m))
      PROVE  Promise!Ask \/ Promise!Refuse
  <2>1. /\ StrLen(m) \in Nat
        /\ usable /\ StrLen(m) <= LONG_MAX
             => m \in Memory /\ StrLen(m) <= Len(m)
    BY <1>2, StrLenBound
  <2> QED
    BY Zenon, <1>2, <2>1, EnterPromise
<1>3. ASSUME NEW isCount \in BOOLEAN, Enter(FALSE, isCount, NULL, 0)
      PROVE  Promise!Ask \/ Promise!Refuse
  <2>1. FALSE /\ 0 <= LONG_MAX => NULL \in Memory /\ 0 <= Len(NULL)
    OBVIOUS
  <2> QED
    BY Zenon, <1>0, <1>3, <2>1, EnterPromise
<1>4. CASE ValidateBytes
  BY Zenon, <1>0, <1>1, <1>3, <1>4 DEF ValidateBytes
<1>5. CASE CodepointCountBytes
  BY Zenon, <1>0, <1>1, <1>3, <1>5 DEF CodepointCountBytes
<1>6. CASE Validate
  BY Zenon, <1>0, <1>2, <1>3, <1>6 DEF Validate
<1>7. CASE CodepointCount
  BY Zenon, <1>0, <1>2, <1>3, <1>7 DEF CodepointCount
<1> QED
  BY Zenon, <1>4, <1>5, <1>6, <1>7 DEF Call

LEMMA AdvancePromise == ASSUME Advance PROVE UNCHANGED Promise!promised
<1>1. UNCHANGED << pc, counting, bytes, length, count, status >>
  BY DEF Advance
<1> QED
  BY Zenon, <1>1 DEF Promise!promised, Phase, Question

LEMMA RejectPromise == ASSUME IInv, Reject PROVE Promise!Answer
<1>0. /\ pc = "loop" /\ remaining > 0 /\ Step <= 0
      /\ status' = IF Step < 0 THEN LeoUTF8StatusFromUtf8proc(Step) ELSE ERROR
      /\ pc' = "returned"
      /\ UNCHANGED << counting, bytes, length, p, remaining, count >>
  BY DEF Reject
<1>1. /\ bytes \in Seq(Byte)
      /\ {length, p, remaining, localCount, count} \subseteq Nat
      /\ p + remaining = length
      /\ length <= Len(bytes)
      /\ Len(bytes) \in Nat
  BY <1>0, LoopState
<1>2. status' = INVALID
  <2>1. PICK k : k = Step
    OBVIOUS
  <2>2. p # p + remaining
    BY SMT, <1>0, <1>1
  <2>3. k \in 1 .. 4 \/ k = UTF8PROC_ERROR_INVALIDUTF8
    BY SMT, <2>1, <2>2 DEF Step, Iterate, Decoded, Rejected, SequenceLength
  <2>4. k = UTF8PROC_ERROR_INVALIDUTF8 /\ k < 0
    BY SMT, <1>0, <2>1, <2>3 DEF UTF8PROC_ERROR_INVALIDUTF8
  <2>5. LeoUTF8StatusFromUtf8proc(UTF8PROC_ERROR_INVALIDUTF8) = INVALID
    BY SMT DEF LeoUTF8StatusFromUtf8proc, UTF8PROC_ERROR_INVALIDUTF8,
               UTF8PROC_ERROR_NOMEM
  <2> QED
    BY <1>0, <2>1, <2>4, <2>5
<1>3. ~ Promise!WellFormed(bytes, length)
  <2>1. RejectsAtFirstDefect'
    BY RejectIInv DEF IInv
  <2>2. \A to \in p + 1 .. length : ~ Encodes(bytes, p, to)
    BY <1>0, <2>1 DEF RejectsAtFirstDefect
  <2>3. Tilable(bytes, p)
    BY <1>0 DEF IInv, CursorBetweenCharacters, Tilable
  <2>4. p \in Nat /\ p < length /\ length \in 0 .. Len(bytes)
    BY SMT, <1>0, <1>1
  <2>5. ~ Tilable(bytes, length)
    BY <1>1, <2>2, <2>3, <2>4, DefectStops
  <2> QED
    BY <1>1, <2>4, <2>5, WellFormedTilable
<1>4. Phase = "asked" /\ Phase' = "answered"
  BY <1>0, PhaseByPc, PhaseByPcNext
<1>5. Question.bytes = bytes /\ Question.length = length /\ Question' = Question
  BY <1>0 DEF Question
<1> QED
  BY Zenon, <1>0, <1>2, <1>3, <1>4, <1>5 DEF Promise!Answer, INVALID

LEMMA AcceptPromise == ASSUME IInv, Accept PROVE Promise!Answer
<1>0. /\ pc = "loop" /\ remaining <= 0
      /\ pc' = "returned" /\ status' = OK
      /\ count' = IF counting THEN localCount ELSE count
      /\ UNCHANGED << counting, bytes, length >>
  BY DEF Accept
<1>1. /\ bytes \in Seq(Byte)
      /\ {length, p, remaining, localCount, count} \subseteq Nat
      /\ p + remaining = length
      /\ length <= Len(bytes)
      /\ Len(bytes) \in Nat
  BY <1>0, LoopState
<1>2. p = length /\ length \in 0 .. Len(bytes)
  BY SMT, <1>0, <1>1
<1>3. PICK cuts \in SUBSET (0 .. length) :
           /\ Tiles(cuts, bytes, length)
           /\ counting => Cardinality(cuts) = localCount + 1
  BY <1>0, <1>2 DEF IInv, CursorBetweenCharacters
<1>4. Promise!WellFormed(bytes, length)
  BY <1>1, <1>2, <1>3, WellFormedTilable DEF Tilable
<1>5. counting => localCount = Promise!Characters(bytes, length)
  <2>1. PICK n : n = Promise!Characters(bytes, length)
    OBVIOUS
  <2>2. Cardinality(cuts) = n + 1
    BY <1>1, <1>2, <1>3, <2>1, TilesCount
  <2>3. n \in Int
    <3>1. IsFiniteSet(1 .. length)
      BY SMT, <1>1, FS_Interval
    <3>2. n = Cardinality({i \in 1 .. length : bytes[i] \notin Promise!Trail})
      BY Zenon, <2>1, SameCardinality DEF Promise!Characters
    <3>3. n \in Nat
      BY <3>1, <3>2, FS_Subset, FS_CardinalityType
    <3> QED
      BY SMT, <3>3
  <2>4. counting => localCount + 1 = n + 1
    BY <1>3, <2>2
  <2> QED
    BY SMT, <1>1, <2>1, <2>3, <2>4
<1>6. Phase = "asked" /\ Phase' = "answered"
  BY <1>0, PhaseByPc, PhaseByPcNext
<1>7. /\ Question.bytes = bytes /\ Question.length = length
      /\ Question.count = counting /\ Question' = Question
  BY <1>0 DEF Question
<1> QED
  BY Zenon, <1>0, <1>4, <1>5, <1>6, <1>7 DEF Promise!Answer, OK

LEMMA ReturnPromise == ASSUME Return PROVE Promise!Take
<1>1. Phase = "answered" /\ Phase' = "idle"
  BY PhaseByPc, PhaseByPcNext DEF Return
<1>2. Question' = Promise!Nothing
  BY Zenon DEF Return, Question, Promise!Nothing
<1> QED
  BY <1>1, <1>2 DEF Return, Promise!Take

LEMMA StutterPromise == ASSUME UNCHANGED vars PROVE UNCHANGED Promise!promised
<1>1. UNCHANGED << pc, counting, bytes, length, count, status >>
  BY DEF vars
<1> QED
  BY Zenon, <1>1 DEF Promise!promised, Phase, Question

\* The answers of LeoUTF8ValidateBytes, LeoUTF8CodepointCountBytes and their
\* C-string wrappers are the abstract specification's: LEO_UTF8_OK exactly for
\* the strings the Unicode table calls well formed, and then the number of their
\* characters, written to the caller's count in the one step that returns OK.
THEOREM AnswersAsPromised == Spec => Promise!Answers
<1>1. IInv /\ [Next]_vars => [Promise!Next]_Promise!promised
  BY Zenon, CallPromise, AdvancePromise, RejectPromise, AcceptPromise,
     ReturnPromise, StutterPromise DEF Next, Run, Promise!Next
<1> QED
  BY InitPromise, <1>1, SpecIInv, PTL DEF Spec, Promise!Answers
==============================================================================
