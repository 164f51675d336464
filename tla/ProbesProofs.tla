----------------------------- MODULE ProbesProofs -----------------------------
(***************************************************************************)
(* The fuzzer's probes earn their exit code and give back what they took,  *)
(* for any bytes in the files, any line buffer and any transform.           *)
(* What the research probes conclude about a file system is true of it, on *)
(* any disk that killed runs can leave.                                    *)
(***************************************************************************)
EXTENDS LeoFuzzProbes, HFSPlusProbes, Utf8CodecProofs

-----------------------------------------------------------------------------
(* Lines.                                                                  *)

LEMMA MinOf ==
    ASSUME NEW S, S \subseteq Nat, S # {}
    PROVE  Min(S) \in S /\ \A y \in S : Min(S) <= y
<1>1. PICK x \in S : \A y \in S : x <= y
  BY Least
<1> QED
  BY <1>1 DEF Min

LEMMA MaxOf ==
    ASSUME NEW m \in Nat, NEW S \in SUBSET (0 .. m), S # {}
    PROVE  Max(S) \in S /\ \A y \in S : y <= Max(S)
<1>1. PICK x \in S : \A y \in S : y <= x
  BY Greatest
<1>2. \A y \in S : y \in Int
  OBVIOUS
<1>3. \A y \in S : x >= y
  BY SMT, <1>1, <1>2
<1>4. Max(S) \in S /\ \A y \in S : Max(S) >= y
  BY <1>1, <1>3 DEF Max
<1>5. PICK z \in S : z = Max(S) /\ \A y \in S : z >= y
  BY <1>4
<1>6. \A y \in S : y <= z
  BY SMT, <1>2, <1>5
<1> QED
  BY <1>5, <1>6

\* A place in a case file behind which something is left to read.
Inside(from) == /\ file \in Bytes /\ Len(file) \in Nat
                /\ from \in Nat /\ from < Len(file)

\* fgets reads something, no more than there is room for, and no further than a
\* newline.
LEMMA LineEnds ==
    ASSUME NEW from, Inside(from)
    PROVE  /\ LineEnd(from) \in from + 1 .. Len(file)
           /\ LineEnd(from) - from <= LineSize - 1
           /\ \/ file[LineEnd(from)] = NEWLINE
              \/ LineEnd(from) - from = LineSize - 1
              \/ LineEnd(from) = Len(file)
           /\ \A i \in from + 1 .. LineEnd(from) - 1 : file[i] # NEWLINE
<1> DEFINE ends == {i \in from + 1 .. Len(file) :
                       file[i] = NEWLINE \/ i - from = LineSize - 1 \/ i = Len(file)}
<1>1. PICK n \in Nat, m \in Nat : n = Len(file) /\ m = LineSize - 1 /\ m > 0
  <2>1. LineSize - 1 \in Nat /\ LineSize - 1 > 0
    BY SMT, LineAssumption
  <2> QED
    BY <2>1 DEF Inside
<1>2. from \in Nat /\ from < n
  BY <1>1 DEF Inside
<1>3. /\ ends \subseteq Nat /\ n \in ends
      /\ from + m <= n => from + m \in ends
  BY <1>1, <1>2
<1>4. PICK e : e = Min(ends)
  OBVIOUS
<1>5. e \in ends /\ \A y \in ends : e <= y
  BY <1>3, <1>4, MinOf
<1>6. e = LineEnd(from)
  BY <1>4 DEF LineEnd
<1>7. e \in from + 1 .. n
  BY <1>1, <1>5
<1>8. e - from <= m
  <2>1. n \in ends => e <= n
    BY <1>5
  <2>2. from + m <= n => e <= from + m
    BY <1>3, <1>5
  <2> QED
    BY SMT, <1>1, <1>2, <1>3, <1>7, <2>1, <2>2
<1>9. file[e] = NEWLINE \/ e - from = m \/ e = n
  BY <1>1, <1>5
<1>10. ASSUME NEW i \in from + 1 .. e - 1 PROVE file[i] # NEWLINE
  <2>1. i \in from + 1 .. n /\ ~ (e <= i)
    BY SMT, <1>1, <1>2, <1>7
  <2>2. i \notin ends
    BY <1>5, <2>1
  <2> QED
    BY <1>1, <2>1, <2>2
<1> QED
  BY <1>1, <1>6, <1>7, <1>8, <1>9, <1>10

\* What is in the buffer, and the digits behind a key.
LEMMA BufferBytes ==
    ASSUME NEW from, Inside(from)
    PROVE  InBuffer(from) \in Seq(0 .. 255)
<1>1. PICK e \in Nat : e = LineEnd(from) /\ e \in from + 1 .. Len(file)
  BY LineEnds DEF Inside
<1> DEFINE nuls == {i \in from + 1 .. e : file[i] = NUL}
<1>2. nuls \cup {e + 1} \subseteq Nat /\ from \in Nat
  BY <1>1 DEF Inside
<1>3. PICK m : m = Min(nuls \cup {e + 1})
  OBVIOUS
<1>4. m \in nuls \cup {e + 1}
  BY <1>2, <1>3, MinOf
<1>5. m - 1 \in Int /\ from + 1 \in Int /\ m - 1 <= e
  BY <1>1, <1>2, <1>4
<1>6. \A i \in from + 1 .. m - 1 : i \in 1 .. Len(file)
  BY <1>1, <1>2, <1>5 DEF Inside
<1>7. \A i \in from + 1 .. m - 1 : file[i] \in 0 .. 255
  BY <1>6, ElementOfSeq DEF Inside, Bytes
<1>8. SubSeq(file, from + 1, m - 1) \in Seq(0 .. 255)
  BY <1>5, <1>7, SubSeqProperties
<1> QED
  BY <1>1, <1>3, <1>8 DEF InBuffer

\* What a character adds to the digits.
Digit == [ch \in 0 .. 255 |->
             IF IsIgnoredHexChar(ch) THEN << >> ELSE << HexValue(ch) >>]

LEMMA DigitSent == Sends(Digit, 0 .. 255, -1 .. 15)
<1> SUFFICES ASSUME NEW ch \in 0 .. 255 PROVE Digit[ch] \in Seq(-1 .. 15)
  BY DEF Sends
<1>1. << >> \in Seq(-1 .. 15)
  BY EmptySeq
<1>2. HexValue(ch) \in -1 .. 15
  BY SMT DEF HexValue
<1>3. << HexValue(ch) >> \in Seq(-1 .. 15)
  BY <1>2
<1> QED
  BY <1>1, <1>3 DEF Digit

LEMMA PrefixIs ==
    ASSUME NEW key \in Keys
    PROVE  Prefix[key] \in Seq(Nat) /\ Len(Prefix[key]) \in Nat \ {0}
<1>1. PICK p : p = << 105, 110, 112, 117, 116, 95, 104, 101, 120, 61 >>
  OBVIOUS
<1>2. PICK q : q = << 101, 120, 112, 101, 99, 116, 101, 100, 95, 104, 101, 120, 61 >>
  OBVIOUS
<1>3. p \in Seq(Nat) /\ Len(p) = 10
  BY <1>1
<1>4. q \in Seq(Nat) /\ Len(q) = 13
  BY <1>2
<1>5. Prefix["input"] = p /\ Prefix["expected"] = q
  BY <1>1, <1>2 DEF Prefix
<1>6. Len(p) \in Nat \ {0} /\ Len(q) \in Nat \ {0}
  BY SMT, <1>3, <1>4
<1>7. CASE key = "input"
  <2>1. Prefix[key] = p
    BY <1>5, <1>7
  <2> QED
    BY Zenon, <1>3, <1>6, <2>1
<1>8. CASE key = "expected"
  <2>1. Prefix[key] = q
    BY <1>5, <1>8
  <2> QED
    BY Zenon, <1>4, <1>6, <2>1
<1> QED
  BY <1>7, <1>8 DEF Keys

LEMMA DigitsType ==
    ASSUME NEW from, Inside(from), NEW key \in Keys
    PROVE  Digits(from, key) \in Seq(-1 .. 15)
<1>1. PICK line \in Seq(0 .. 255), k \in Nat :
        line = InBuffer(from) /\ k = Len(Prefix[key]) /\ Len(line) \in Nat
  BY BufferBytes, PrefixIs, LenProperties
<1>2. PICK text : text = SubSeq(line, k + 1, Len(line))
  OBVIOUS
<1>3. text \in Seq(0 .. 255)
  <2>1. \A i \in k + 1 .. Len(line) : i \in 1 .. Len(line)
    BY <1>1
  <2>2. \A i \in k + 1 .. Len(line) : line[i] \in 0 .. 255
    BY <2>1, ElementOfSeq
  <2>3. k + 1 \in Int /\ Len(line) \in Int
    BY <1>1
  <2> QED
    BY <1>2, <2>2, <2>3, SubSeqProperties
<1>4. Spread(Digit, text) \in Seq(-1 .. 15)
  BY <1>3, DigitSent, SpreadType
<1>5. \A i \in 1 .. Len(text) : text[i] \in 0 .. 255
  BY <1>3, ElementOfSeq
<1>6. Pieces(Digit, text) =
         [i \in 1 .. Len(text) |-> IF IsIgnoredHexChar(text[i]) THEN << >>
                                   ELSE << HexValue(text[i]) >>]
  BY <1>5 DEF Pieces, Digit
<1> QED
  BY <1>1, <1>2, <1>4, <1>6 DEF Digits, Spread

\* Pairs of digits are bytes.
LEMMA DigitsAreBytes ==
    ASSUME NEW digits \in Seq(-1 .. 15), IsHex(digits)
    PROVE  ParseBytes(digits) \in Bytes /\ ParseBytes(digits) # NULL
<1>1. PICK n \in Nat : n = Len(digits) \div 2 /\ Len(digits) = 2 * n
  <2>1. Len(digits) \in Nat /\ (Len(digits) % 2) = 0
    BY LenProperties DEF IsHex
  <2> QED
    BY SMT, <2>1
<1>2. ASSUME NEW i \in 1 .. n
      PROVE  16 * digits[(2 * i) - 1] + digits[2 * i] \in 0 .. 255
  <2>1. /\ (2 * i) - 1 \in 1 .. Len(digits)
        /\ 2 * i \in 1 .. Len(digits)
    BY SMT, <1>1
  <2>2. PICK d, e : d = digits[(2 * i) - 1] /\ e = digits[2 * i]
    OBVIOUS
  <2>3. d \in -1 .. 15 /\ e \in -1 .. 15
    BY <2>1, <2>2, ElementOfSeq
  <2>4. d # -1 /\ e # -1
    <3>1. DOMAIN digits = 1 .. Len(digits)
      BY LenProperties
    <3> QED
      BY <2>1, <2>2, <3>1 DEF IsHex
  <2>5. 16 * d + e \in 0 .. 255
    BY SMT, <2>3, <2>4
  <2> QED
    BY <2>2, <2>5
<1>3. ParseBytes(digits) = [i \in 1 .. n |-> 16 * digits[(2 * i) - 1] + digits[2 * i]]
  BY <1>1 DEF ParseBytes
<1>4. ParseBytes(digits) \in Seq(0 .. 255)
  <2> DEFINE byte(i) == 16 * digits[(2 * i) - 1] + digits[2 * i]
  <2>1. \A i \in 1 .. n : byte(i) \in 0 .. 255
    BY <1>2
  <2> HIDE DEF byte
  <2>2. [i \in 1 .. n |-> byte(i)] \in Seq(0 .. 255)
    BY <2>1
  <2> QED
    BY <1>3, <2>2 DEF byte
<1> QED
  BY <1>4, InputAssumption DEF Bytes

\* A line has at most one of the keys.
LEMMA OneKey ==
    ASSUME NEW from, Inside(from), NEW a \in Keys, NEW b \in Keys,
           StartsWith(from, a), StartsWith(from, b)
    PROVE  a = b
<1>1. PICK line \in Seq(0 .. 255) : line = InBuffer(from) /\ Len(line) \in Nat
  BY BufferBytes, LenProperties
<1>2. ASSUME NEW key \in Keys, StartsWith(from, key)
      PROVE  line[1] = Prefix[key][1]
  <2>1. PICK k \in Nat : k = Len(Prefix[key]) /\ k > 0
    BY PrefixIs
  <2>2. k <= Len(line) /\ SubSeq(Prefix[key], 1, k) = SubSeq(line, 1, k)
    BY <1>1, <1>2, <2>1 DEF StartsWith, IsPrefix
  <2>3. Prefix[key] \in Seq(Nat)
    BY PrefixIs
  <2>4. \A i \in 1 .. k : Prefix[key][i] \in Nat
    BY <2>1, <2>3, ElementOfSeq
  <2>5. \A i \in 1 .. k : line[i] \in 0 .. 255
    <3>1. \A i \in 1 .. k : i \in 1 .. Len(line)
      BY <1>1, <2>1, <2>2
    <3> QED
      BY <3>1, ElementOfSeq
  <2>6. 1 \in 1 .. k - 1 + 1 /\ 1 + 1 - 1 = 1 /\ k \in Int /\ 1 \in Int
    BY SMT, <2>1
  <2>7. SubSeq(Prefix[key], 1, k)[1] = Prefix[key][1]
    BY <2>4, <2>6, SubSeqProperties
  <2>8. SubSeq(line, 1, k)[1] = line[1]
    BY <2>5, <2>6, SubSeqProperties
  <2> QED
    BY <2>2, <2>7, <2>8
<1>3. Prefix["input"][1] # Prefix["expected"][1]
  BY DEF Prefix
<1> QED
  BY <1>2, <1>3 DEF Keys

-----------------------------------------------------------------------------
(* Where lines start.                                                      *)

LEMMA BeginningIs ==
    ASSUME NEW i \in Nat
    PROVE  /\ Beginning(i) \in 0 .. i
           /\ Beginning(i) = 0 \/ file[Beginning(i)] = NEWLINE
           /\ \A n \in 1 .. i : file[n] = NEWLINE => n <= Beginning(i)
<1> DEFINE S == {0} \cup {n \in 1 .. i : file[n] = NEWLINE}
<1>1. S \in SUBSET (0 .. i) /\ 0 \in S
  OBVIOUS
<1>2. Beginning(i) \in S /\ \A y \in S : y <= Beginning(i)
  BY <1>1, MaxOf DEF Beginning
<1> QED
  BY <1>2

\* Without a newline in between, two places have one beginning.
LEMMA BeginningKept ==
    ASSUME NEW i \in Nat, NEW j \in Nat, i <= j,
           \A n \in i + 1 .. j : file[n] # NEWLINE
    PROVE  Beginning(j) = Beginning(i)
<1>1. PICK a \in Nat, b \in Nat :
        /\ a = Beginning(i) /\ b = Beginning(j) /\ a <= i /\ b <= j
        /\ a = 0 \/ file[a] = NEWLINE
        /\ b = 0 \/ file[b] = NEWLINE
  BY BeginningIs
<1>2. a <= b
  <2>1. a = 0 \/ (a \in 1 .. j /\ file[a] = NEWLINE)
    BY SMT, <1>1
  <2> QED
    BY <1>1, <2>1, BeginningIs
<1>3. b <= a
  <2>1. b <= i
    <3>1. b \in i + 1 .. j => b = 0
      BY <1>1
    <3> QED
      BY SMT, <1>1, <3>1
  <2>2. b = 0 \/ (b \in 1 .. i /\ file[b] = NEWLINE)
    BY SMT, <1>1, <2>1
  <2> QED
    BY <1>1, <2>2, BeginningIs
<1> QED
  BY SMT, <1>1, <1>2, <1>3

\* Multiples of the room in the buffer.
LEMMA Multiples ==
    ASSUME NEW m \in Nat, m > 0, NEW k \in Nat, NEW l \in Nat
    PROVE  /\ k * m \in Nat /\ (k + 1) * m = k * m + m /\ k <= k * m
           /\ k * m < l * m => k * m + m <= l * m
<1>1. k * m \in Nat /\ (k + 1) * m = k * m + m
  BY SMT
<1>2. k <= k * m
  BY SMT
<1>3. ASSUME k * m < l * m PROVE (k + 1) * m <= l * m
  <2>1. k < l
    <3>1. l <= k => l * m <= k * m
      BY SMT
    <3>2. l * m \in Nat
      BY SMT
    <3> QED
      BY SMT, <1>1, <1>3, <3>1, <3>2
  <2>2. PICK d \in Nat : l = (k + 1) + d
    <3>1. l - (k + 1) \in Nat /\ l = (k + 1) + (l - (k + 1))
      BY SMT, <2>1
    <3> QED
      BY <3>1
  <2>3. l * m = (k + 1) * m + d * m /\ d * m \in Nat /\ (k + 1) * m \in Nat
    BY SMT, <2>2
  <2> QED
    BY SMT, <2>3
<1>4. k * m < l * m => k * m + m <= l * m
  BY <1>1, <1>3
<1> QED
  BY <1>1, <1>2, <1>4

\* Behind a line the next one starts, and none starts within it.
LEMMA NextStart ==
    ASSUME NEW from, Inside(from), from \in Starts
    PROVE  /\ LineEnd(from) < Len(file) => LineEnd(from) \in Starts
           /\ \A i \in Starts : i < LineEnd(from) => i <= from
<1>1. PICK n \in Nat, m \in Nat, e \in Nat :
        /\ n = Len(file) /\ m = LineSize - 1 /\ m > 0
        /\ e = LineEnd(from) /\ e \in from + 1 .. n /\ e - from <= m
        /\ file[e] = NEWLINE \/ e - from = m \/ e = n
        /\ \A i \in from + 1 .. e - 1 : file[i] # NEWLINE
  <2>1. LineSize - 1 \in Nat /\ LineSize - 1 > 0
    BY SMT, LineAssumption
  <2>2. \A e \in from + 1 .. Len(file) : e \in Nat
    BY DEF Inside
  <2> QED
    BY <2>1, <2>2, LineEnds DEF Inside
<1>2. from \in Nat /\ from < n
  BY <1>1 DEF Inside
<1>3. PICK s \in Nat, k \in Nat : s = Beginning(from) /\ s <= from /\ from = s + k * m
  <2>1. PICK k \in 0 .. from : from = Beginning(from) + k * m
    BY <1>1 DEF Starts
  <2>2. PICK s \in 0 .. from : s = Beginning(from)
    BY <1>2, BeginningIs
  <2>3. s \in Nat /\ s <= from /\ k \in Nat
    BY SMT, <1>2
  <2> QED
    BY <2>1, <2>2, <2>3
<1>4. k * m \in Nat /\ (k + 1) * m = k * m + m
  BY <1>1, <1>3, Multiples
<1>5. ASSUME e < n PROVE e \in Starts
  <2>1. CASE file[e] = NEWLINE
    <3>1. Beginning(e) \in 0 .. e /\ e <= Beginning(e)
      <4>1. e \in 1 .. e
        BY SMT, <1>1, <1>2
      <4> QED
        BY <2>1, <4>1, BeginningIs
    <3>2. e = Beginning(e) + 0 * m /\ 0 \in 0 .. e /\ e \in 0 .. n - 1
      BY SMT, <1>1, <1>5, <3>1
    <3> QED
      BY <1>1, <3>2 DEF Starts
  <2>2. CASE file[e] # NEWLINE
    <3>1. e = from + m
      BY SMT, <1>1, <1>2, <1>5, <2>2
    <3>2. \A i \in from + 1 .. e : file[i] # NEWLINE
      <4>1. \A i \in from + 1 .. e : i \in from + 1 .. e - 1 \/ i = e
        BY SMT, <1>1, <1>2
      <4> QED
        BY <1>1, <2>2, <4>1
    <3>3. from <= e
      BY SMT, <1>1, <1>2
    <3>4. Beginning(e) = s
      BY <1>1, <1>2, <1>3, <3>2, <3>3, BeginningKept
    <3>5. e = s + (k + 1) * m
      BY SMT, <1>1, <1>3, <1>4, <3>1
    <3>6. k + 1 \in 0 .. e
      <4>1. PICK p \in Nat : p = k + 1
        BY <1>3
      <4>2. PICK pm \in Nat : pm = p * m /\ p <= pm
        BY <1>1, Multiples
      <4>3. e = s + pm
        BY <3>5, <4>1, <4>2
      <4>4. p \in 0 .. e
        BY SMT, <1>1, <1>3, <4>2, <4>3
      <4> QED
        BY <4>1, <4>4
    <3>7. e \in 0 .. n - 1
      BY SMT, <1>1, <1>5
    <3> QED
      BY <1>1, <3>4, <3>5, <3>6, <3>7 DEF Starts
  <2> QED
    BY <2>1, <2>2
<1>6. ASSUME NEW i \in Starts, i < e PROVE i <= from
  <2> SUFFICES ASSUME from < i PROVE FALSE
    BY SMT, <1>2 DEF Starts, Inside
  <2>1. i \in Nat /\ i < e
    BY <1>1, <1>6 DEF Starts
  <2>2. \A j \in from + 1 .. i : file[j] # NEWLINE
    <3>1. \A j \in from + 1 .. i : j \in from + 1 .. e - 1
      BY SMT, <1>1, <1>2, <2>1
    <3> QED
      BY <1>1, <3>1
  <2>3. from <= i
    BY SMT, <1>2, <2>1
  <2>4. Beginning(i) = s
    BY <1>2, <1>3, <2>1, <2>2, <2>3, BeginningKept
  <2>5. PICK l \in Nat : i = s + l * m
    <3>1. PICK l \in 0 .. i : i = Beginning(i) + l * m
      BY <1>1 DEF Starts
    <3> QED
      BY <2>1, <2>4, <3>1
  <2>6. k * m \in Nat /\ l * m \in Nat /\ (k * m < l * m => k * m + m <= l * m)
    <3>1. m > 0
      BY <1>1
    <3> QED
      BY Zenon, <3>1, Multiples
  <2>7. PICK km \in Nat, lm \in Nat : km = k * m /\ lm = l * m
    BY <2>6
  <2>8. km < lm => km + m <= lm
    BY Zenon, <2>6, <2>7
  <2>9. from = s + km /\ i = s + lm
    BY Zenon, <1>3, <2>5, <2>7
  <2>10. e - from <= m
    BY <1>1
  <2> QED
    BY SMT, <1>2, <2>1, <2>8, <2>9, <2>10
<1> QED
  BY <1>1, <1>5, <1>6

\* The first line starts at the beginning.
LEMMA FirstStart == ASSUME Inside(0) PROVE 0 \in Starts
<1>1. Beginning(0) = 0
  BY BeginningIs
<1>2. LineSize - 1 \in Nat
  BY SMT, LineAssumption
<1>3. 0 = Beginning(0) + 0 * (LineSize - 1) /\ 0 \in 0 .. 0
  BY SMT, <1>1, <1>2
<1>4. 0 \in 0 .. Len(file) - 1
  BY DEF Inside
<1> QED
  BY <1>3, <1>4 DEF Starts

-----------------------------------------------------------------------------
(* The invariant.                                                          *)

\* How many buffers the two HexBuffers hold.
Buffers == Held(loaded["input"]) + Held(loaded["expected"])

\* Each probe has a file of its own kind and takes the steps of its own kind.
Course ==
    /\ pc \in {"open", "malloc", "fread", "fgets", "invalid", "run", "verdict", "exit"}
    /\ program \in {"validate", "transform", "expect"}
    /\ program # "expect" => file \in Inputs /\ pc \notin {"fgets", "invalid"}
    /\ program = "expect" => file \in CaseFiles /\ pc \notin {"malloc", "fread"}

\* The count of live mallocs is that of the buffers somebody still has.
Balance ==
    /\ loaded \in [Keys -> {NULL} \cup Bytes]
    /\ pc \in {"open", "malloc", "fread"} => \A key \in Keys : loaded[key] = NULL
    /\ pc \notin {"verdict", "exit"} => out = NULL
    /\ pc \in {"open", "malloc"} => live = 0
    /\ pc = "fread" => live = 1
    /\ pc \in {"fgets", "invalid", "run"} => live = Buffers
    /\ pc = "verdict" =>
          live = Buffers + (IF program = "validate" THEN 0 ELSE Held(out))
    /\ (pc \in {"run", "verdict"} /\ program # "expect") =>
          loaded["input"] = file /\ loaded["expected"] = NULL

Closed == pc \in {"open", "invalid", "run", "verdict"} => ~ handle

\* Of the lines that start before n, that at i is the last one with its key.
SaysUpTo(key, i, n) == /\ i \in Starts /\ i < n /\ StartsWith(i, key)
                       /\ \A j \in Starts : j < n /\ StartsWith(j, key) => j <= i

\* A HexBuffer holds what the last line with its key said, of those before n.
Loaded(key, n) ==
    IF loaded[key] = NULL THEN \A j \in Starts : j < n => ~ StartsWith(j, key)
    ELSE \E i \in Starts : /\ SaysUpTo(key, i, n)
                           /\ loaded[key] = ParseBytes(Digits(i, key))

\* Every line before n that has a key has digits behind it.
Taken(n) == \A j \in Starts, key \in Keys :
               j < n /\ StartsWith(j, key) => IsHex(Digits(j, key))

\* Every line read was taken, and the last ones are what is loaded.
LinesTaken ==
    program = "expect" =>
        /\ offset \in 0 .. Len(file)
        /\ pc = "open" => offset = 0
        /\ pc = "fgets" => offset = Len(file) \/ offset \in Starts
        /\ pc \in {"run", "verdict"} =>
              offset = Len(file) /\ \A key \in Keys : loaded[key] # NULL
        /\ pc \in {"fgets", "run", "verdict"} =>
              Taken(offset) /\ \A key \in Keys : Loaded(key, offset)

Answered ==
    pc = "verdict" =>
        /\ out \in {NULL, Transform(loaded["input"])}
        /\ program = "validate" => out = Transform(loaded["input"])

ProbeInv == /\ Course /\ Balance /\ Closed /\ LinesTaken /\ Answered
            /\ NothingHeldAtExit /\ OkIsEarned

\* A case file is bytes.
LEMMA CaseBytes ==
    ASSUME Course, program = "expect"
    PROVE  /\ file \in Bytes /\ Len(file) \in Nat
           /\ Starts \subseteq 0 .. Len(file) - 1
<1>1. file \in Bytes
  BY CaseAssumption DEF Course
<1> QED
  BY <1>1, LenProperties DEF Bytes, Starts

\* What is in a file does not change.
LEMMA FileKept ==
    ASSUME file' = file
    PROVE  /\ Starts' = Starts
           /\ \A i, key : /\ StartsWith(i, key)' <=> StartsWith(i, key)
                          /\ Digits(i, key)' = Digits(i, key)
BY DEF Starts, Beginning, StartsWith, Digits, InBuffer, LineEnd

LEMMA LoadedKept ==
    ASSUME NEW key, NEW n, file' = file, loaded'[key] = loaded[key], Loaded(key, n)
    PROVE  Loaded(key, n)'
BY FileKept DEF Loaded, SaysUpTo

LEMMA TakenKept ==
    ASSUME NEW n, file' = file, Taken(n)
    PROVE  Taken(n)'
BY FileKept DEF Taken, IsHex

\* Nothing that lines say is changed by a step that reads none.
LEMMA LinesKept ==
    ASSUME UNCHANGED << file, offset, loaded >>, Taken(offset),
           \A key \in Keys : Loaded(key, offset)
    PROVE  Taken(offset)' /\ \A key \in Keys : Loaded(key, offset)'
<1>1. PICK n : n = offset
  OBVIOUS
<1>2. Taken(n)' /\ \A key \in Keys : Loaded(key, n)'
  BY <1>1, LoadedKept, TakenKept
<1>3. n = offset'
  BY <1>1
<1> QED
  BY <1>2, <1>3 DEF Taken, Loaded, SaysUpTo

LEMMA EarnedKept ==
    ASSUME UNCHANGED << program, file >>, Earned
    PROVE  Earned'
<1>1. Starts' = Starts /\ file' = file /\ program' = program
  BY FileKept
<1>2. \A i, key : Says(key, i) => Says(key, i)'
  BY <1>1, FileKept DEF Says
<1>3. CASE program # "expect"
  BY <1>1, <1>3 DEF Earned
<1>4. CASE program = "expect"
  <2>1. \A i \in Starts, key \in Keys : StartsWith(i, key)' => IsHex(Digits(i, key))'
    BY <1>1, <1>4, FileKept DEF Earned, IsHex
  <2>2. PICK i \in Starts, e \in Starts :
          /\ Says("input", i) /\ Says("expected", e)
          /\ Transform(ParseBytes(Digits(i, "input")))
               = ParseBytes(Digits(e, "expected"))
    BY <1>4 DEF Earned
  <2>3. PICK a, b : a = Digits(i, "input") /\ b = Digits(e, "expected")
    OBVIOUS
  <2>4. Digits(i, "input")' = a /\ Digits(e, "expected")' = b
    BY <1>1, <2>3, FileKept
  <2>5. Says("input", i)' /\ Says("expected", e)'
    BY <1>2, <2>2
  <2> QED
    BY <1>1, <1>4, <2>1, <2>2, <2>3, <2>4, <2>5 DEF Earned
<1> QED
  BY <1>3, <1>4

LEMMA InitProbe == ASSUME Init PROVE ProbeInv
<1>1. /\ pc = "open" /\ exit = 0 /\ offset = 0 /\ out = NULL /\ live = 0
      /\ handle = FALSE /\ loaded = [key \in Keys |-> NULL]
  BY DEF Init
<1>2. Course
  BY DEF Init, Course
<1>3. Balance
  BY <1>1 DEF Balance
<1>4. LinesTaken
  <2>1. program = "expect" => 0 \in 0 .. Len(file)
    BY <1>2, CaseBytes
  <2> QED
    BY <1>1, <2>1 DEF LinesTaken
<1>5. Closed /\ Answered /\ NothingHeldAtExit /\ OkIsEarned
  BY <1>1 DEF Closed, Answered, NothingHeldAtExit, OkIsEarned
<1> QED
  BY <1>2, <1>3, <1>4, <1>5 DEF ProbeInv

-----------------------------------------------------------------------------
(* The steps.                                                              *)

LEMMA OpenProbe == ASSUME ProbeInv, Open PROVE ProbeInv'
<1>1. /\ pc = "open" /\ UNCHANGED << program, file, offset, loaded, out, live >>
      /\ live = 0 /\ out = NULL /\ ~ handle
      /\ \A key \in Keys : loaded[key] = NULL
  BY DEF Open, ProbeInv, Balance, Closed
<1>2. \/ /\ handle' = TRUE
         /\ pc' = (IF program = "expect" THEN "fgets" ELSE "malloc")
         /\ exit' = exit
      \/ UNCHANGED handle /\ pc' = "exit" /\ exit' \in {1, 2}
  BY DEF Open, Goto, Leave
<1>3. Course'
  BY <1>1, <1>2 DEF ProbeInv, Course
<1>4. Balance'
  BY <1>1, <1>2 DEF ProbeInv, Balance, Buffers, Held, Keys
<1>5. LinesTaken'
  <2> SUFFICES ASSUME program = "expect"
               PROVE  /\ offset = 0 /\ 0 \in 0 .. Len(file)
                      /\ pc' = "fgets" => /\ 0 = Len(file) \/ 0 \in Starts'
                                          /\ Taken(offset)'
                                          /\ \A key \in Keys : Loaded(key, offset)'
    BY <1>1, <1>2 DEF LinesTaken
  <2>1. offset = 0 /\ file \in Bytes /\ Len(file) \in Nat
    BY <1>1, CaseBytes DEF ProbeInv, LinesTaken
  <2>2. 0 = Len(file) \/ 0 \in Starts
    BY <2>1, FirstStart DEF Inside
  <2>3. \A i \in Starts : ~ (i < 0)
    BY <2>1 DEF Starts
  <2>4. Taken(offset) /\ \A key \in Keys : Loaded(key, offset)
    BY <1>1, <2>1, <2>3 DEF Taken, Loaded
  <2>5. Taken(offset)' /\ \A key \in Keys : Loaded(key, offset)'
    BY <1>1, <2>4, LinesKept
  <2> QED
    BY <1>1, <2>1, <2>2, <2>5, FileKept
<1>6. Closed' /\ Answered' /\ NothingHeldAtExit' /\ OkIsEarned'
  BY <1>1, <1>2 DEF Closed, Answered, NothingHeldAtExit, OkIsEarned
<1> QED
  BY <1>3, <1>4, <1>5, <1>6 DEF ProbeInv

\* ReadFile, in its two steps.
LEMMA AllocateProbe == ASSUME ProbeInv, Allocate PROVE ProbeInv'
<1>1. /\ pc = "malloc" /\ UNCHANGED << program, file, offset, loaded, out >>
      /\ live = 0 /\ out = NULL /\ \A key \in Keys : loaded[key] = NULL
  BY DEF Allocate, ProbeInv, Balance
<1>2. \/ pc' = "fread" /\ live' = 1 /\ exit' = exit
      \/ pc' = "exit" /\ live' = 0 /\ exit' = 1 /\ handle' = FALSE
  BY <1>1 DEF Allocate, Goto, Leave
<1>3. program # "expect"
  BY <1>1 DEF ProbeInv, Course
<1>4. Course'
  BY <1>1, <1>2, <1>3 DEF ProbeInv, Course
<1>5. Balance'
  BY <1>1, <1>2 DEF ProbeInv, Balance
<1>6. LinesTaken' /\ Closed' /\ Answered' /\ NothingHeldAtExit' /\ OkIsEarned'
  BY <1>1, <1>2, <1>3
     DEF LinesTaken, Closed, Answered, NothingHeldAtExit, OkIsEarned
<1> QED
  BY <1>4, <1>5, <1>6 DEF ProbeInv

LEMMA ReadWholeProbe == ASSUME ProbeInv, ReadWhole PROVE ProbeInv'
<1>1. /\ pc = "fread" /\ handle' = FALSE /\ UNCHANGED << program, file, offset, out >>
      /\ live = 1 /\ out = NULL /\ \A key \in Keys : loaded[key] = NULL
      /\ loaded \in [Keys -> {NULL} \cup Bytes]
  BY DEF ReadWhole, ProbeInv, Balance
<1>2. program # "expect" /\ file \in Bytes /\ file # NULL
  BY <1>1, InputAssumption DEF ProbeInv, Course
<1>3. Course'
  BY <1>1, <1>2 DEF ReadWhole, Goto, Leave, ProbeInv, Course
<1>4. LinesTaken' /\ Closed' /\ Answered'
  BY <1>1, <1>2 DEF ReadWhole, Goto, Leave, LinesTaken, Closed, Answered
<1>5. CASE /\ loaded' = [loaded EXCEPT !["input"] = file]
           /\ UNCHANGED live /\ Goto("run")
  <2>1. /\ loaded' \in [Keys -> {NULL} \cup Bytes]
        /\ loaded'["input"] = file /\ loaded'["expected"] = NULL
    BY <1>1, <1>2, <1>5 DEF Keys
  <2>2. Balance'
    BY <1>1, <1>2, <1>5, <2>1 DEF Balance, Buffers, Held, Goto
  <2>3. NothingHeldAtExit' /\ OkIsEarned'
    BY <1>5 DEF Goto, NothingHeldAtExit, OkIsEarned
  <2> QED
    BY <1>3, <1>4, <2>2, <2>3 DEF ProbeInv
<1>6. CASE live' = live - 1 /\ UNCHANGED loaded /\ Leave(1)
  <2>1. Balance' /\ NothingHeldAtExit' /\ OkIsEarned'
    BY <1>1, <1>6 DEF Leave, Balance, NothingHeldAtExit, OkIsEarned
  <2> QED
    BY <1>3, <1>4, <2>1 DEF ProbeInv
<1> QED
  BY <1>5, <1>6 DEF ReadWhole

\* What a line read leads to.
LEMMA LineRead ==
    ASSUME ProbeInv, ReadLine
    PROVE  /\ pc = "fgets" /\ program = "expect"
           /\ UNCHANGED << program, file, out >>
           /\ out = NULL /\ live = Buffers /\ loaded \in [Keys -> {NULL} \cup Bytes]
           /\ Inside(offset) /\ offset \in Starts
           /\ offset' \in 0 .. Len(file)
           /\ offset' = Len(file) \/ offset' \in Starts
           /\ \A i \in Starts : i < offset' <=> i < offset \/ i = offset
           /\ Taken(offset) /\ \A key \in Keys : Loaded(key, offset)
<1>1. /\ pc = "fgets" /\ offset < Len(file) /\ offset' = LineEnd(offset)
      /\ UNCHANGED << program, file, out >>
      /\ out = NULL /\ live = Buffers /\ loaded \in [Keys -> {NULL} \cup Bytes]
  BY DEF ReadLine, ProbeInv, Balance
<1>2. program = "expect"
  BY <1>1 DEF ProbeInv, Course
<1>3. /\ file \in Bytes /\ Len(file) \in Nat /\ offset \in 0 .. Len(file)
      /\ Starts \subseteq 0 .. Len(file) - 1
  BY <1>2, CaseBytes DEF ProbeInv, LinesTaken
<1>4. /\ offset = Len(file) \/ offset \in Starts
      /\ Taken(offset) /\ \A key \in Keys : Loaded(key, offset)
  BY <1>1, <1>2 DEF ProbeInv, LinesTaken
<1>5. Inside(offset) /\ offset \in Starts
  BY <1>1, <1>3, <1>4 DEF Inside
<1>6. PICK e : e = LineEnd(offset)
  OBVIOUS
<1>7. /\ e \in offset + 1 .. Len(file)
      /\ e < Len(file) => e \in Starts
      /\ \A i \in Starts : i < e => i <= offset
  BY <1>5, <1>6, LineEnds, NextStart
<1>8. /\ e \in 0 .. Len(file) /\ (e = Len(file) \/ e \in Starts)
      /\ \A i \in Starts : i < e <=> i < offset \/ i = offset
  <2>1. e \in Nat /\ offset < e /\ e <= Len(file)
    BY SMT, <1>3, <1>7
  <2>2. \A i \in Starts : i \in Nat
    BY <1>3
  <2> QED
    BY SMT, <1>3, <1>7, <2>1, <2>2
<1> QED
  BY <1>1, <1>2, <1>4, <1>5, <1>6, <1>8

\* The line read has no such key.
LEMMA KeySkipped ==
    ASSUME ProbeInv, ReadLine, NEW key \in Keys, ~ StartsWith(offset, key),
           loaded'[key] = loaded[key]
    PROVE  Loaded(key, offset)'
<1>1. PICK e : e = offset'
  OBVIOUS
<1>2. /\ Loaded(key, offset) /\ file' = file
      /\ \A i \in Starts : i < e <=> i < offset \/ i = offset
  BY <1>1, LineRead
<1>3. \A i \in Starts : i < e /\ StartsWith(i, key) <=> i < offset /\ StartsWith(i, key)
  BY <1>2
<1>4. Loaded(key, e)
  BY <1>2, <1>3 DEF Loaded, SaysUpTo
<1>5. Loaded(key, e)'
  BY <1>2, <1>4, LoadedKept
<1> QED
  BY <1>1, <1>5 DEF Loaded, SaysUpTo

\* The line read has the key, and its digits replace what the HexBuffer held.
LEMMA KeyLoaded ==
    ASSUME ProbeInv, ReadLine, NEW key \in Keys, StartsWith(offset, key),
           IsHex(Digits(offset, key)),
           loaded' = [loaded EXCEPT ![key] = ParseBytes(Digits(offset, key))]
    PROVE  /\ loaded' \in [Keys -> {NULL} \cup Bytes] /\ loaded'[key] # NULL
           /\ \A other \in Keys : other # key => loaded'[other] = loaded[other]
           /\ \A any \in Keys : Loaded(any, offset)'
<1>1. PICK e, n : e = offset' /\ n = offset
  OBVIOUS
<1>2. /\ file' = file /\ Inside(n) /\ n \in Starts
      /\ loaded \in [Keys -> {NULL} \cup Bytes]
      /\ \A i \in Starts : i < e <=> i < n \/ i = n
      /\ \A i \in Starts : i \in Nat
  <2>1. program = "expect" /\ Course
    BY LineRead DEF ProbeInv
  <2> QED
    BY <1>1, <2>1, LineRead, CaseBytes
<1>3. PICK new : new = ParseBytes(Digits(n, key))
  OBVIOUS
<1>4. new \in Bytes /\ new # NULL
  BY <1>1, <1>2, <1>3, DigitsType, DigitsAreBytes
<1>5. /\ loaded' \in [Keys -> {NULL} \cup Bytes] /\ loaded'[key] = new
      /\ \A other \in Keys : other # key => loaded'[other] = loaded[other]
  BY <1>1, <1>2, <1>3, <1>4
<1>6. Loaded(key, offset)'
  <2>1. n < e /\ \A j \in Starts : j < e => j <= n
    <3>1. n \in Nat /\ \A j \in Starts : (j < n \/ j = n) => j <= n
      BY SMT, <1>2
    <3> QED
      BY <1>2, <3>1
  <2>2. SaysUpTo(key, n, e)
    BY <1>1, <1>2, <2>1 DEF SaysUpTo
  <2>3. SaysUpTo(key, n, e)'
    BY <1>2, <2>2, FileKept DEF SaysUpTo
  <2>4. loaded'[key] = ParseBytes(Digits(n, key)') /\ n \in Starts'
    BY <1>2, <1>3, <1>5, FileKept
  <2>5. Loaded(key, e)'
    BY <1>4, <1>5, <2>3, <2>4 DEF Loaded
  <2> QED
    BY <1>1, <2>5 DEF Loaded, SaysUpTo
<1>7. ASSUME NEW other \in Keys, other # key PROVE Loaded(other, offset)'
  <2>1. ~ StartsWith(offset, other)
    BY <1>1, <1>2, <1>7, OneKey
  <2> QED
    BY <1>5, <1>7, <2>1, KeySkipped
<1> QED
  BY <1>4, <1>5, <1>6, <1>7

\* A line without a key, or with digits behind it.
LEMMA LineTaken ==
    ASSUME ProbeInv, ReadLine,
           \A key \in Keys : StartsWith(offset, key) => IsHex(Digits(offset, key))
    PROVE  Taken(offset)'
<1>1. PICK e : e = offset'
  OBVIOUS
<1>2. /\ Taken(offset) /\ file' = file
      /\ \A i \in Starts : i < e <=> i < offset \/ i = offset
  BY <1>1, LineRead
<1>3. Taken(e)
  BY <1>2 DEF Taken
<1>4. Taken(e)'
  BY <1>2, <1>3, TakenKept
<1> QED
  BY <1>1, <1>4 DEF Taken

LEMMA ReadLineProbe == ASSUME ProbeInv, ReadLine PROVE ProbeInv'
<1>1. /\ pc = "fgets" /\ program = "expect" /\ UNCHANGED << program, file, out >>
      /\ out = NULL /\ live = Buffers /\ loaded \in [Keys -> {NULL} \cup Bytes]
      /\ Inside(offset) /\ offset' \in 0 .. Len(file)
      /\ offset' = Len(file) \/ offset' \in Starts
  BY LineRead
<1>2. Starts' = Starts
  BY <1>1, FileKept
<1>3. ASSUME pc' = "fgets", Taken(offset)', \A key \in Keys : Loaded(key, offset)'
      PROVE  LinesTaken'
  BY <1>1, <1>2, <1>3 DEF LinesTaken
<1>4. CASE SkipLine
  <2>1. pc' = "fgets" /\ exit' = exit /\ UNCHANGED << loaded, live, handle >>
    BY <1>4 DEF SkipLine, Goto
  <2>2. Taken(offset)' /\ \A key \in Keys : Loaded(key, offset)'
    BY <1>4, <2>1, KeySkipped, LineTaken DEF SkipLine
  <2>3. LinesTaken'
    BY <1>3, <2>1, <2>2
  <2>4. Course' /\ Balance'
    BY <1>1, <2>1 DEF ProbeInv, Course, Balance, Buffers
  <2>5. Closed' /\ Answered' /\ NothingHeldAtExit' /\ OkIsEarned'
    BY <2>1 DEF Closed, Answered, NothingHeldAtExit, OkIsEarned
  <2> QED
    BY <2>3, <2>4, <2>5 DEF ProbeInv
<1>5. ASSUME NEW key \in Keys, StartsWith(offset, key), LoadLine(key)
      PROVE  ProbeInv'
  <2>1. /\ pc' = "fgets" /\ exit' = exit /\ handle' = handle
        /\ IsHex(Digits(offset, key))
        /\ loaded' = [loaded EXCEPT ![key] = ParseBytes(Digits(offset, key))]
        /\ live' = (live - Held(loaded[key])) + 1
    BY <1>5 DEF LoadLine, Goto
  <2>2. /\ loaded' \in [Keys -> {NULL} \cup Bytes] /\ loaded'[key] # NULL
        /\ \A other \in Keys : other # key => loaded'[other] = loaded[other]
        /\ \A any \in Keys : Loaded(any, offset)'
    BY <1>5, <2>1, KeyLoaded
  <2>3. Taken(offset)'
    BY <1>1, <1>5, <2>1, LineTaken, OneKey
  <2>4. LinesTaken'
    BY <1>3, <2>1, <2>2, <2>3
  <2>5. live' = Buffers'
    BY <1>1, <2>1, <2>2 DEF Buffers, Held, Keys
  <2>6. Course' /\ Balance'
    BY <1>1, <2>1, <2>2, <2>5 DEF ProbeInv, Course, Balance
  <2>7. Closed' /\ Answered' /\ NothingHeldAtExit' /\ OkIsEarned'
    BY <2>1 DEF Closed, Answered, NothingHeldAtExit, OkIsEarned
  <2> QED
    BY <2>4, <2>6, <2>7 DEF ProbeInv
<1>6. ASSUME NEW key \in Keys, RefuseLine(key)
      PROVE  ProbeInv'
  <2>1. /\ pc' = "invalid" /\ exit' = exit /\ handle' = FALSE
        /\ loaded' = [loaded EXCEPT ![key] = NULL]
        /\ live' = live - Held(loaded[key])
    BY <1>6 DEF RefuseLine, Goto
  <2>2. /\ loaded' \in [Keys -> {NULL} \cup Bytes] /\ loaded'[key] = NULL
        /\ \A other \in Keys : other # key => loaded'[other] = loaded[other]
    BY <1>1, <2>1
  <2>3. live' = Buffers'
    BY <1>1, <2>1, <2>2 DEF Buffers, Held, Keys
  <2>4. Course' /\ Balance'
    BY <1>1, <2>1, <2>2, <2>3 DEF ProbeInv, Course, Balance
  <2>5. LinesTaken'
    BY <1>1, <2>1 DEF LinesTaken
  <2>6. Closed' /\ Answered' /\ NothingHeldAtExit' /\ OkIsEarned'
    BY <2>1 DEF Closed, Answered, NothingHeldAtExit, OkIsEarned
  <2> QED
    BY <2>4, <2>5, <2>6 DEF ProbeInv
<1> QED
  BY <1>4, <1>5, <1>6 DEF ReadLine

LEMMA EndOfLinesProbe == ASSUME ProbeInv, EndOfLines PROVE ProbeInv'
<1>1. /\ pc = "fgets" /\ handle' = FALSE /\ program = "expect"
      /\ UNCHANGED << program, file, offset, loaded, out, live >>
      /\ out = NULL /\ live = Buffers
  BY DEF EndOfLines, ProbeInv, Course, Balance
<1>2. \/ pc' = "run" /\ offset = Len(file) /\ \A key \in Keys : loaded[key] # NULL
      \/ pc' = "invalid"
  BY DEF EndOfLines, Goto
<1>3. Course' /\ Balance'
  BY <1>1, <1>2 DEF ProbeInv, Course, Balance, Buffers
<1>4. LinesTaken'
  <2>1. Taken(offset) /\ \A key \in Keys : Loaded(key, offset)
    BY <1>1 DEF ProbeInv, LinesTaken
  <2>2. Taken(offset)' /\ \A key \in Keys : Loaded(key, offset)'
    BY <1>1, <2>1, LinesKept
  <2> QED
    BY <1>1, <1>2, <2>2 DEF ProbeInv, LinesTaken
<1>5. Closed' /\ Answered' /\ NothingHeldAtExit' /\ OkIsEarned'
  BY <1>1, <1>2 DEF Closed, Answered, NothingHeldAtExit, OkIsEarned
<1> QED
  BY <1>3, <1>4, <1>5 DEF ProbeInv

LEMMA InvalidProbe == ASSUME ProbeInv, InvalidCaseFile PROVE ProbeInv'
<1>1. /\ pc = "invalid" /\ pc' = "exit" /\ exit' = 2
      /\ UNCHANGED << program, file, offset, out, handle >>
      /\ out = NULL /\ live = Buffers /\ ~ handle
      /\ live' = live - (Held(loaded["input"]) + Held(loaded["expected"]) + Held(out))
      /\ loaded' = [key \in Keys |-> NULL]
  BY DEF InvalidCaseFile, FreeAll, Leave, ProbeInv, Balance, Closed
<1>2. live' = 0
  BY <1>1 DEF Buffers, Held
<1>3. Course' /\ Balance'
  BY <1>1 DEF ProbeInv, Course, Balance
<1>4. LinesTaken' /\ Closed' /\ Answered' /\ NothingHeldAtExit' /\ OkIsEarned'
  BY <1>1, <1>2
     DEF ProbeInv, LinesTaken, Closed, Answered, NothingHeldAtExit, OkIsEarned
<1> QED
  BY <1>3, <1>4 DEF ProbeInv

LEMMA RunProbe == ASSUME ProbeInv, RunTransform PROVE ProbeInv'
<1>1. /\ pc = "run" /\ pc' = "verdict" /\ exit' = exit
      /\ UNCHANGED << program, file, offset, loaded, handle >>
      /\ live = Buffers /\ ~ handle
  BY DEF RunTransform, Goto, ProbeInv, Balance, Closed
<1>2. /\ live' = live + (IF program = "validate" THEN 0 ELSE Held(out'))
      /\ out' \in {NULL, Transform(loaded["input"])}
      /\ program = "validate" => out' = Transform(loaded["input"])
  BY DEF RunTransform
<1>3. Course'
  BY <1>1 DEF ProbeInv, Course
<1>4. Balance'
  BY <1>1, <1>2 DEF ProbeInv, Balance, Buffers
<1>5. LinesTaken'
  <2> SUFFICES ASSUME program = "expect"
               PROVE  /\ offset \in 0 .. Len(file) /\ offset = Len(file)
                      /\ \A key \in Keys : loaded[key] # NULL
                      /\ Taken(offset)' /\ \A key \in Keys : Loaded(key, offset)'
    BY <1>1 DEF LinesTaken
  <2>1. /\ offset \in 0 .. Len(file) /\ offset = Len(file)
        /\ \A key \in Keys : loaded[key] # NULL
        /\ Taken(offset) /\ \A key \in Keys : Loaded(key, offset)
    BY <1>1 DEF ProbeInv, LinesTaken
  <2>2. Taken(offset)' /\ \A key \in Keys : Loaded(key, offset)'
    BY <1>1, <2>1, LinesKept
  <2> QED
    BY <2>1, <2>2
<1>6. Closed' /\ Answered' /\ NothingHeldAtExit' /\ OkIsEarned'
  BY <1>1, <1>2 DEF Closed, Answered, NothingHeldAtExit, OkIsEarned
<1> QED
  BY <1>3, <1>4, <1>5, <1>6 DEF ProbeInv

\* What the last lines said and what the transform made of it, compared.
LEMMA VerdictEarned ==
    ASSUME ProbeInv, pc = "verdict", program = "expect", out # NULL,
           ~ Mismatch(out, loaded["expected"])
    PROVE  /\ \A i \in Starts, key \in Keys :
                 StartsWith(i, key) => IsHex(Digits(i, key))
           /\ \E i \in Starts, e \in Starts :
                 /\ Says("input", i) /\ Says("expected", e)
                 /\ Transform(ParseBytes(Digits(i, "input")))
                      = ParseBytes(Digits(e, "expected"))
<1>1. PICK n \in Nat :
        /\ n = Len(file) /\ \A i \in Starts : i < n
        /\ Taken(n) /\ \A key \in Keys : loaded[key] # NULL /\ Loaded(key, n)
  <2>1. /\ offset = Len(file) /\ Taken(offset)
        /\ \A key \in Keys : loaded[key] # NULL /\ Loaded(key, offset)
    BY DEF ProbeInv, LinesTaken
  <2>2. Len(file) \in Nat /\ Starts \subseteq 0 .. Len(file) - 1
    BY CaseBytes DEF ProbeInv
  <2>3. \A i \in Starts : i < Len(file)
    BY SMT, <2>2
  <2> QED
    BY <2>1, <2>2, <2>3
<1>2. ASSUME NEW key \in Keys
      PROVE  \E i \in Starts :
                Says(key, i) /\ loaded[key] = ParseBytes(Digits(i, key))
  <2>1. PICK i \in Starts :
          SaysUpTo(key, i, n) /\ loaded[key] = ParseBytes(Digits(i, key))
    BY <1>1 DEF Loaded
  <2> QED
    BY <1>1, <2>1 DEF Says, SaysUpTo
<1>3. PICK i \in Starts :
        Says("input", i) /\ loaded["input"] = ParseBytes(Digits(i, "input"))
  BY <1>2 DEF Keys
<1>4. PICK e \in Starts :
        Says("expected", e) /\ loaded["expected"] = ParseBytes(Digits(e, "expected"))
  BY <1>2 DEF Keys
<1>5. Transform(loaded["input"]) = loaded["expected"]
  BY DEF ProbeInv, Answered, Mismatch
<1>6. \A j \in Starts, key \in Keys : StartsWith(j, key) => IsHex(Digits(j, key))
  BY <1>1 DEF Taken
<1> QED
  BY <1>3, <1>4, <1>5, <1>6

LEMMA VerdictProbe == ASSUME ProbeInv, Verdict PROVE ProbeInv'
<1>1. /\ pc = "verdict" /\ pc' = "exit" /\ ~ handle
      /\ UNCHANGED << program, file, offset, out, handle >>
      /\ live = Buffers + (IF program = "validate" THEN 0 ELSE Held(out))
      /\ loaded' = [key \in Keys |-> NULL]
  BY DEF Verdict, FreeAll, Leave, ProbeInv, Balance, Closed
<1>2. live' = 0
  <2>1. CASE program = "validate"
    <3>1. /\ live' = live - 1 /\ file \in Bytes
          /\ loaded["input"] = file /\ loaded["expected"] = NULL
      BY <1>1, <2>1, InputAssumption DEF Verdict, ProbeInv, Course, Balance
    <3> QED
      BY <1>1, <2>1, <3>1, InputAssumption DEF Buffers, Held
  <2>2. CASE program # "validate"
    <3>1. live' = live - (Held(loaded["input"]) + Held(loaded["expected"]) + Held(out))
      BY <2>2 DEF Verdict, FreeAll
    <3> QED
      BY <1>1, <2>2, <3>1 DEF Buffers, Held
  <2> QED
    BY <2>1, <2>2
<1>3. OkIsEarned'
  <2> SUFFICES ASSUME exit' = 0 PROVE Earned
    BY <1>1, EarnedKept DEF OkIsEarned, Earned
  <2>1. /\ out # NULL
        /\ program = "expect" => ~ Mismatch(out, loaded["expected"])
    BY DEF Verdict, Leave
  <2>2. CASE program # "expect"
    BY <1>1, <2>1, <2>2 DEF ProbeInv, Balance, Answered, Earned
  <2>3. CASE program = "expect"
    BY <1>1, <2>1, <2>3, VerdictEarned DEF Earned
  <2> QED
    BY <2>2, <2>3
<1>4. Course' /\ Balance' /\ LinesTaken'
  BY <1>1 DEF ProbeInv, Course, Balance, LinesTaken
<1>5. Closed' /\ Answered' /\ NothingHeldAtExit'
  BY <1>1, <1>2 DEF Closed, Answered, NothingHeldAtExit
<1> QED
  BY <1>3, <1>4, <1>5 DEF ProbeInv

LEMMA StutterProbe == ASSUME ProbeInv, UNCHANGED vars PROVE ProbeInv'
<1>1. UNCHANGED << program, file, pc, exit, offset, loaded, out, live, handle >>
  BY DEF vars
<1>2. Starts' = Starts
  BY <1>1, FileKept
<1>3. LinesTaken'
  <2>1. Taken(offset) /\ (\A key \in Keys : Loaded(key, offset))
          => Taken(offset)' /\ \A key \in Keys : Loaded(key, offset)'
    BY <1>1, LinesKept
  <2> QED
    BY <1>1, <1>2, <2>1 DEF ProbeInv, LinesTaken
<1>4. OkIsEarned'
  BY <1>1, EarnedKept DEF ProbeInv, OkIsEarned, Earned
<1>5. Course' /\ Balance' /\ Closed' /\ Answered' /\ NothingHeldAtExit'
  BY <1>1 DEF ProbeInv, Course, Balance, Buffers, Closed, Answered, NothingHeldAtExit
<1> QED
  BY <1>3, <1>4, <1>5 DEF ProbeInv

LEMMA ProbeAlways == Spec => []ProbeInv
<1>1. Init => ProbeInv
  BY InitProbe
<1>2. ProbeInv /\ [Next]_vars => ProbeInv'
  BY OpenProbe, AllocateProbe, ReadWholeProbe, ReadLineProbe, EndOfLinesProbe,
     InvalidProbe, RunProbe, VerdictProbe, StutterProbe DEF Next
<1> QED
  BY <1>1, <1>2, PTL DEF Spec

\* Whatever call of the C library fails, and however often a case file repeats a
\* key, the probes have freed every buffer and closed the file when they exit.
THEOREM ProbesGiveBack == Spec => []NothingHeldAtExit
<1>1. ProbeInv => NothingHeldAtExit
  BY DEF ProbeInv
<1> QED
  BY <1>1, ProbeAlways, PTL

\* Exit code 0 is earned, for any bytes in a file: by bytes LeoUTF8 takes, or by
\* lines of which every one with a key is pairs of digits, as far as the probe sees
\* it, and whose last expectation is the whole output for the last input.
THEOREM ExitCodeEarned == Spec => []OkIsEarned
<1>1. ProbeInv => OkIsEarned
  BY DEF ProbeInv
<1> QED
  BY <1>1, ProbeAlways, PTL

-----------------------------------------------------------------------------
(* The research probes.                                                    *)

\* What is in the directory of the running test.
Entries == {f.name : f \in {g \in files : g.dir = Current.dir}}

FirstStored  == Stored(Current.first)
SecondStored == Stored(Current.second)
Alike        == SameName(Current.first, Current.second)

\* The fold of the names' forms belongs to the case probe.
ProbeTyped ==
    /\ fs \in FileSystems
    /\ program \in {"filename", "case"}
    /\ test \in 1 .. 4 /\ (program = "filename" => test = 1)
    /\ pc \in {"start", "mkdir", "mkdir test", "normalize", "fold", "create first",
               "create second", "opendir", "readdir", "summary", "exit"}
    /\ pc = "fold" => program = "case"

\* Every file is in a directory that is there; a directory that was just made is
\* empty, and then holds what the test has created.
FilesKnown ==
    /\ \A f \in files : f.dir \in dirs
    /\ pc \in {"normalize", "fold", "create first", "create second"} =>
          Current.dir \in dirs
    /\ pc \in {"normalize", "fold", "create first"} => Entries = {}
    /\ pc = "create second" => Entries = {FirstStored}
    /\ pc \in {"opendir", "readdir", "summary"} =>
          Entries = IF matched THEN {FirstStored} ELSE {FirstStored, SecondStored}

\* Whether the second creation met a file is what the file system makes of it.
MatchKnown ==
    /\ pc \in {"opendir", "readdir", "summary"} => (matched <=> Alike)
    /\ pc \in {"start", "mkdir", "mkdir test", "normalize", "fold", "create first",
               "create second"} => ~ matched

\* Only names of the directory are read.
EntriesRead ==
    /\ pc \in {"readdir", "summary"} => seen \cup left \subseteq Entries
    /\ pc \in {"start", "mkdir", "mkdir test", "normalize", "fold", "create first",
               "create second", "opendir"} => seen = {}

\* What has yet to be given back.
HeldAt ==
    held = CASE pc = "fold" -> {"nfd"}
             [] pc \in {"create first", "create second", "opendir", "summary"} ->
                   OwnMemory
             [] pc = "readdir" -> OwnMemory \cup {"dir"}
             [] OTHER -> {}

HInv == ProbeTyped /\ FilesKnown /\ MatchKnown /\ EntriesRead /\ HeldAt

-----------------------------------------------------------------------------
LEMMA TestKnown ==
    ASSUME ProbeTyped
    PROVE  /\ program = "filename" =>
                 /\ Current.dir = 0 /\ Current.first = nfcName
                 /\ Len(Tests) = 1
           /\ program = "case" => Len(Tests) = 4
<1>1. CASE program = "filename"
  <2>1. Tests = << Test(0, nfcName, nfdName) >> /\ test = 1
    BY <1>1 DEF ProbeTyped, Tests, FilenameTest
  <2>2. Current = Test(0, nfcName, nfdName) /\ Len(Tests) = 1
    BY <2>1 DEF Current
  <2> QED
    BY <1>1, <2>2 DEF Test
<1>2. CASE program = "case"
  BY <1>2 DEF Tests, CaseTests
<1> QED
  BY <1>1, <1>2 DEF ProbeTyped

LEMMA DecomposeOnce ==
    ASSUME NEW name
    PROVE  Decompose(Decompose(name)) = Decompose(name)
BY DEF Decompose

\* Under the name it is stored by, a file is told from the others as under its own.
LEMMA StoredAlike ==
    ASSUME ProbeTyped
    PROVE  SameName(FirstStored, Current.second) <=> Alike
<1>1. ASSUME NEW name PROVE Key(Stored(name)) = Key(name)
  BY DecomposeOnce DEF Key, Stored
<1> QED
  BY <1>1 DEF SameName, FirstStored, Alike

\* What a step leaves alone if it does not change the test.
LEMMA SameTest ==
    ASSUME UNCHANGED << fs, program, test >>
    PROVE  /\ Current' = Current
           /\ FirstStored' = FirstStored /\ SecondStored' = SecondStored
           /\ Alike' = Alike /\ OwnMemory' = OwnMemory
<1>1. Current' = Current /\ OwnMemory' = OwnMemory
  BY DEF Current, Tests, OwnMemory
<1> QED
  BY <1>1 DEF FirstStored, SecondStored, Alike, Stored, SameName, Key

LEMMA SameEntries ==
    ASSUME UNCHANGED << fs, program, test, files >>
    PROVE  Entries' = Entries
BY SameTest DEF Entries

\* The process that runs again, or leaves, has no memory of the disk.
LEMMA AtStart ==
    ASSUME fs \in FileSystems,
           program \in {"filename", "case"}, \A f \in files : f.dir \in dirs,
           test = 1, ~ matched, seen = {}, held = {}, pc = "start"
    PROVE  HInv
BY DEF HInv, ProbeTyped, FilesKnown, MatchKnown, EntriesRead, HeldAt

LEMMA InitHInv == ResearchInit => HInv
BY AtStart DEF ResearchInit

LEMMA RemoveLeftoversHInv == ASSUME HInv, RemoveLeftovers PROVE HInv'
BY DEF HInv, ProbeTyped, FilesKnown, MatchKnown, EntriesRead, HeldAt,
       RemoveLeftovers, Goto

LEMMA MakeProbeDirHInv == ASSUME HInv, MakeProbeDir PROVE HInv'
<1> USE DEF MakeProbeDir, MakeDirectory, Goto, Leave
<1>1. ProbeTyped /\ ProbeTyped'
  BY DEF HInv, ProbeTyped
<1>2. FilesKnown'
  <2>1. Current' = Current /\ Entries' = Entries
    BY SameTest, SameEntries
  <2>2. CASE pc' = "exit"
    BY <2>2 DEF HInv, FilesKnown
  <2>3. CASE pc' # "exit" /\ program = "case"
    BY <2>3 DEF HInv, FilesKnown
  <2>4. CASE pc' # "exit" /\ program = "filename"
    <3>1. Current.dir = 0
      BY <1>1, <2>4, TestKnown
    <3>2. 0 \notin dirs /\ dirs' = dirs \cup {0} /\ pc' = "normalize"
      BY <2>4
    <3>3. Entries = {}
      BY <3>1, <3>2 DEF HInv, FilesKnown, Entries
    <3> QED
      BY <2>1, <3>1, <3>2, <3>3 DEF HInv, FilesKnown
  <2> QED
    BY <1>1, <2>2, <2>3, <2>4 DEF ProbeTyped
<1> QED
  BY <1>1, <1>2 DEF HInv, ProbeTyped, MatchKnown, EntriesRead, HeldAt

LEMMA MakeTestDirHInv == ASSUME HInv, MakeTestDir PROVE HInv'
<1> USE DEF MakeTestDir, MakeDirectory, Goto, Leave
<1>1. ProbeTyped /\ ProbeTyped'
  BY DEF HInv, ProbeTyped
<1>2. FilesKnown'
  <2>1. Current' = Current /\ Entries' = Entries
    BY SameTest, SameEntries
  <2>2. CASE pc' = "exit"
    BY <2>2 DEF HInv, FilesKnown
  <2>3. CASE pc' # "exit"
    <3>1. /\ Current.dir \notin dirs /\ dirs' = dirs \cup {Current.dir}
          /\ pc' = "normalize"
      BY <2>3
    <3>2. Entries = {}
      BY <3>1 DEF HInv, FilesKnown, Entries
    <3> QED
      BY <2>1, <3>1, <3>2 DEF HInv, FilesKnown
  <2> QED
    BY <2>2, <2>3
<1> QED
  BY <1>1, <1>2 DEF HInv, ProbeTyped, MatchKnown, EntriesRead, HeldAt

\* A step that changes neither the disk nor the test.
LEMMA NormalizeHInv == ASSUME HInv, Normalize PROVE HInv'
<1> USE DEF Normalize, Goto, Leave, disk
<1>1. /\ Current' = Current /\ Entries' = Entries
      /\ FirstStored' = FirstStored /\ OwnMemory' = OwnMemory
  BY SameTest, SameEntries
<1> QED
  BY <1>1 DEF HInv, ProbeTyped, FilesKnown, MatchKnown, EntriesRead, HeldAt,
              OwnMemory

LEMMA FoldHInv == ASSUME HInv, Fold PROVE HInv'
<1> USE DEF Fold, Goto, Leave, disk, Frees
<1>1. /\ Current' = Current /\ Entries' = Entries
      /\ FirstStored' = FirstStored /\ OwnMemory' = OwnMemory
  BY SameTest, SameEntries
<1> QED
  BY <1>1 DEF HInv, ProbeTyped, FilesKnown, MatchKnown, EntriesRead, HeldAt,
              OwnMemory

\* A file that is created is one more entry of the directory.
LEMMA OneMoreEntry ==
    ASSUME UNCHANGED << fs, program, test >>, NEW name,
           files' = files \cup {[dir |-> Current.dir, name |-> name]}
    PROVE  Entries' = Entries \cup {name}
<1>1. Current' = Current
  BY SameTest
<1>2. ASSUME NEW n PROVE n \in Entries' <=> n \in Entries \cup {name}
  <2> DEFINE new == [dir |-> Current.dir, name |-> name]
  <2>1. n \in Entries' <=> \E f \in files' : f.dir = Current.dir /\ f.name = n
    BY <1>1 DEF Entries
  <2>2. n \in Entries <=> \E f \in files : f.dir = Current.dir /\ f.name = n
    BY DEF Entries
  <2>3. \A f : f \in files' <=> f \in files \/ f = new
    OBVIOUS
  <2>4. new.dir = Current.dir /\ new.name = name
    OBVIOUS
  <2> QED
    BY <2>1, <2>2, <2>3, <2>4
<1> QED
  BY <1>2

\* The second spelling is there exactly if the file system takes it for the first.
LEMMA SecondExists ==
    ASSUME ProbeTyped, Entries = {FirstStored}
    PROVE  Exists(Current.second) <=> Alike
<1>1. Exists(Current.second)
         <=> \E n \in Entries : SameName(n, Current.second)
  BY DEF Exists, Entries
<1> QED
  BY <1>1, StoredAlike

LEMMA CreateFirstHInv == ASSUME HInv, CreateFirst PROVE HInv'
<1> USE DEF CreateFirst, Goto, Leave, Frees
<1>1. /\ Current' = Current /\ FirstStored' = FirstStored
      /\ OwnMemory' = OwnMemory
  BY SameTest
<1>2. CASE pc' = "create second"
  <2>1. files' = files \cup {[dir |-> Current.dir, name |-> FirstStored]}
    BY <1>2 DEF CreateFileExclusive, FirstStored
  <2>2. Entries' = {FirstStored}
    BY <2>1, OneMoreEntry DEF HInv, FilesKnown
  <2>3. \A f \in files' : f.dir \in dirs'
    <3> DEFINE new == [dir |-> Current.dir, name |-> FirstStored]
    <3>1. \A f \in files' : f \in files \/ f = new
      BY <2>1
    <3>2. /\ Current.dir \in dirs /\ dirs' = dirs
          /\ \A f \in files : f.dir \in dirs
      BY <1>2 DEF HInv, FilesKnown
    <3>3. new.dir = Current.dir
      OBVIOUS
    <3> QED
      BY <3>1, <3>2, <3>3
  <2>4. FilesKnown'
    BY <1>1, <1>2, <2>2, <2>3 DEF HInv, FilesKnown
  <2> QED
    BY <1>1, <1>2, <2>4 DEF HInv, ProbeTyped, MatchKnown, EntriesRead, HeldAt
<1>3. CASE pc' = "exit"
  BY <1>1, <1>3 DEF HInv, ProbeTyped, FilesKnown, MatchKnown, EntriesRead, HeldAt
<1> QED
  BY <1>2, <1>3

LEMMA CreateSecondHInv == ASSUME HInv, CreateSecond PROVE HInv'
<1> USE DEF CreateSecond, Goto, Leave, Frees
<1>1. /\ Current' = Current /\ OwnMemory' = OwnMemory
      /\ FirstStored' = FirstStored /\ SecondStored' = SecondStored
      /\ Alike' = Alike
  BY SameTest
<1>2. ProbeTyped /\ Entries = {FirstStored} /\ ~ matched
  BY DEF HInv, FilesKnown, MatchKnown
<1>3. CASE CreateFileExclusive(Current.second) /\ pc' = "opendir"
             /\ UNCHANGED << matched, held >>
  <2>1. files' = files \cup {[dir |-> Current.dir, name |-> SecondStored]}
    BY <1>3 DEF CreateFileExclusive, SecondStored
  <2>2. Entries' = {FirstStored, SecondStored} /\ ~ Alike
    BY <1>2, <1>3, <2>1, OneMoreEntry, SecondExists DEF CreateFileExclusive
  <2>3. \A f \in files' : f.dir \in dirs'
    <3> DEFINE new == [dir |-> Current.dir, name |-> SecondStored]
    <3>1. \A f \in files' : f \in files \/ f = new
      BY <2>1
    <3>2. /\ Current.dir \in dirs /\ dirs' = dirs
          /\ \A f \in files : f.dir \in dirs
      BY <1>3 DEF HInv, FilesKnown
    <3>3. new.dir = Current.dir
      OBVIOUS
    <3> QED
      BY <3>1, <3>2, <3>3
  <2>4. FilesKnown' /\ MatchKnown'
    BY <1>1, <1>2, <1>3, <2>2, <2>3 DEF HInv, FilesKnown, MatchKnown
  <2> QED
    BY <1>1, <1>3, <2>4 DEF HInv, ProbeTyped, EntriesRead, HeldAt
<1>4. CASE Exists(Current.second) /\ matched' = TRUE /\ pc' = "opendir"
             /\ UNCHANGED << files, held >>
  <2>1. Entries' = {FirstStored} /\ Alike
    BY <1>2, <1>4, SameEntries, SecondExists
  <2>2. FilesKnown' /\ MatchKnown'
    BY <1>1, <1>4, <2>1 DEF HInv, FilesKnown, MatchKnown
  <2> QED
    BY <1>1, <1>4, <2>2 DEF HInv, ProbeTyped, EntriesRead, HeldAt
<1>5. CASE pc' = "exit" /\ UNCHANGED << files, matched >>
             /\ held' = held \ OwnMemory
  BY <1>1, <1>5 DEF HInv, ProbeTyped, FilesKnown, MatchKnown, EntriesRead, HeldAt
<1> QED
  BY <1>3, <1>4, <1>5

\* What is read of the directory is in it.
LEMMA OpenDirectoryHInv == ASSUME HInv, OpenDirectory PROVE HInv'
<1> USE DEF OpenDirectory, Goto, Leave, Frees, disk
<1>1. /\ Current' = Current /\ OwnMemory' = OwnMemory
      /\ FirstStored' = FirstStored /\ SecondStored' = SecondStored
      /\ Alike' = Alike /\ Entries' = Entries
  BY SameTest, SameEntries
<1>2. ProbeTyped' /\ FilesKnown' /\ MatchKnown'
  BY <1>1 DEF HInv, ProbeTyped, FilesKnown, MatchKnown
<1>3. EntriesRead'
  BY <1>1 DEF HInv, EntriesRead, Entries
<1>4. HeldAt'
  BY <1>1 DEF HInv, HeldAt
<1> QED
  BY <1>2, <1>3, <1>4 DEF HInv

LEMMA ReadEntryHInv == ASSUME HInv, ReadEntry PROVE HInv'
<1> USE DEF ReadEntry, disk
<1>1. /\ Current' = Current /\ OwnMemory' = OwnMemory
      /\ FirstStored' = FirstStored /\ SecondStored' = SecondStored
      /\ Alike' = Alike /\ Entries' = Entries
  BY SameTest, SameEntries
<1> QED
  BY <1>1 DEF HInv, ProbeTyped, FilesKnown, MatchKnown, EntriesRead, HeldAt

LEMMA CloseDirectoryHInv == ASSUME HInv, CloseDirectory PROVE HInv'
<1> USE DEF CloseDirectory, disk, Goto, Frees
<1>1. /\ Current' = Current /\ OwnMemory' = OwnMemory
      /\ FirstStored' = FirstStored /\ SecondStored' = SecondStored
      /\ Alike' = Alike /\ Entries' = Entries
  BY SameTest, SameEntries
<1>2. held' = OwnMemory
  BY DEF HInv, HeldAt, OwnMemory
<1> QED
  BY <1>1, <1>2 DEF HInv, ProbeTyped, FilesKnown, MatchKnown, EntriesRead, HeldAt

LEMMA NextTest ==
    ASSUME NEW t
    PROVE  ~ (1 < 1) /\ (t \in 1 .. 4 /\ t < 4 => t + 1 \in 1 .. 4)
BY SMT

LEMMA SummarizeHInv == ASSUME HInv, Summarize PROVE HInv'
<1> USE DEF Summarize, disk, Goto, Leave, Frees
<1>1. ProbeTyped /\ held = OwnMemory /\ \A f \in files : f.dir \in dirs
  BY DEF HInv, HeldAt, FilesKnown
<1>2. CASE test < Len(Tests)
  <2>1. program = "case" /\ test \in 1 .. 4 /\ test < 4
    BY <1>1, <1>2, TestKnown, NextTest DEF ProbeTyped
  <2>2. held = {}
    BY <1>1, <2>1 DEF OwnMemory
  <2>3. /\ pc' = "mkdir test" /\ test' = test + 1 /\ ~ matched' /\ seen' = {}
        /\ UNCHANGED << fs, program, dirs, files, held >>
    BY <1>2
  <2>4. test' \in 1 .. 4
    BY <2>1, <2>3, NextTest
  <2>5. ProbeTyped'
    BY <1>1, <2>1, <2>3, <2>4 DEF ProbeTyped
  <2> QED
    BY <1>1, <2>2, <2>3, <2>5
       DEF HInv, FilesKnown, MatchKnown, EntriesRead, HeldAt
<1>3. CASE ~ (test < Len(Tests))
  BY <1>1, <1>3 DEF HInv, ProbeTyped, FilesKnown, MatchKnown, EntriesRead, HeldAt
<1> QED
  BY <1>2, <1>3

LEMMA RunAgainHInv == ASSUME HInv, RunAgain PROVE HInv'
<1>1. /\ pc' = "start" /\ test' = 1 /\ ~ matched' /\ seen' = {} /\ held' = {}
      /\ UNCHANGED << fs, program, dirs, files >>
  BY DEF RunAgain, Fresh, disk
<1>2. /\ fs \in FileSystems
      /\ program \in {"filename", "case"}
      /\ \A f \in files : f.dir \in dirs
  BY DEF HInv, ProbeTyped, FilesKnown
<1>3. ProbeTyped'
  BY <1>1, <1>2 DEF ProbeTyped
<1> QED
  BY <1>1, <1>2, <1>3 DEF HInv, FilesKnown, MatchKnown, EntriesRead, HeldAt

LEMMA StutterHInv == ASSUME HInv, UNCHANGED researchVars PROVE HInv'
<1> USE DEF researchVars, disk, process
<1>1. /\ Current' = Current /\ OwnMemory' = OwnMemory
      /\ FirstStored' = FirstStored /\ SecondStored' = SecondStored
      /\ Alike' = Alike /\ Entries' = Entries
  BY SameTest, SameEntries
<1> QED
  BY <1>1 DEF HInv, ProbeTyped, FilesKnown, MatchKnown, EntriesRead, HeldAt

LEMMA HInvAlways == ResearchSpec => []HInv
<1>1. HInv /\ [ResearchNext]_researchVars => HInv'
  BY RemoveLeftoversHInv, MakeProbeDirHInv, MakeTestDirHInv, NormalizeHInv,
     FoldHInv, CreateFirstHInv, CreateSecondHInv, OpenDirectoryHInv,
     ReadEntryHInv, CloseDirectoryHInv, SummarizeHInv, RunAgainHInv, StutterHInv
     DEF ResearchNext
<1> QED
  BY <1>1, InitHInv, PTL DEF ResearchSpec

\* Whatever earlier runs left on the disk, and wherever they were killed, a probe
\* that prints its summary has met a file under the second spelling exactly if the
\* file system takes the two spellings for one name.
THEOREM MatchIsEvidence == ResearchSpec => []MatchedMeansSameName
<1>1. HInv => MatchedMeansSameName
  BY DEF HInv, MatchKnown, Alike, MatchedMeansSameName
<1> QED
  BY <1>1, HInvAlways, PTL

\* The summary docs/findings reads as decomposition is printed by no file system
\* but one that decomposes, however much of the directory was read.
THEOREM SignatureIsEvidence == ResearchSpec => []SignatureMeansDecomposition
<1>1. ASSUME HInv, pc = "summary", program = "filename", matched,
             nfdName \in seen
      PROVE  fs = "decomposing"
  <2>1. nfdName = Stored(nfcName)
    <3>1. nfdName = FirstStored
      BY <1>1 DEF HInv, FilesKnown, EntriesRead
    <3>2. Current.first = nfcName
      BY <1>1, TestKnown DEF HInv
    <3> QED
      BY <3>1, <3>2 DEF FirstStored
  <2>2. nfcName # nfdName
    BY DEF nfcName, nfdName, Name
  <2> QED
    BY <2>1, <2>2, FileSystemAssumption DEF Stored, HInv, ProbeTyped
<1>2. HInv => SignatureMeansDecomposition
  BY <1>1 DEF SignatureMeansDecomposition
<1> QED
  BY <1>2, HInvAlways, PTL

\* Whatever call fails, and in whichever of the two probes, the memory is freed
\* and the directory closed at exit.
THEOREM ProbesHoldNothing == ResearchSpec => []NothingKeptAtExit
<1>1. HInv => NothingKeptAtExit
  BY DEF HInv, HeldAt, NothingKeptAtExit
<1> QED
  BY <1>1, HInvAlways, PTL
==============================================================================
