------------------------- MODULE LeoUTF8BridgeProofs -------------------------
(***************************************************************************)
(* What the proofs of both bridges share: texts as bytes and as UTF-16     *)
(* units, for any text; and the ownership of the objects a bridge hands    *)
(* out, for any number of variables, any texts and any addresses.  Leaves  *)
(* name SMT because Zenon writes numerals in unary.                        *)
(***************************************************************************)
EXTENDS LeoUTF8Bridge, Utf8CodecProofs

\* A text as UTF-16 units, character by character.
Units(cs) == FlattenSeq([i \in 1 .. Len(cs) |-> UnitsOf(cs[i])])

\* The two halves of a character beyond the first 65536.
Lead(c)  == 55296 + (c - 65536) \div 1024
Trail(c) == 56320 + ((c - 65536) % 1024)

LEMMA UnitRange ==
    ASSUME NEW c \in Nat, c <= 1114111
    PROVE  /\ c < 65536 => c \in Unit
           /\ ~ (c < 65536) => Lead(c) \in Unit /\ Trail(c) \in Unit
<1>1. c < 65536 => c \in Unit
  BY SMT DEF Unit
<1>2. ASSUME ~ (c < 65536) PROVE Lead(c) \in Unit /\ Trail(c) \in Unit
  BY SMT, <1>2 DEF Unit, Lead, Trail
<1> QED
  BY SMT, <1>1, <1>2

LEMMA UnitsOfUnits ==
    ASSUME NEW c \in Scalar
    PROVE  UnitsOf(c) \in Seq(Unit) /\ Len(UnitsOf(c)) \in 1 .. 2
<1>1. c \in Nat /\ c <= 1114111
  BY SMT DEF Scalar, CodePoint
<1>2. CASE c < 65536
  <2>1. c \in Unit
    BY SMT, <1>1, <1>2, UnitRange
  <2>2. UnitsOf(c) = << c >>
    BY SMT, <1>2 DEF UnitsOf
  <2> QED
    BY <2>1, <2>2, ShortSeqs
<1>3. CASE ~ (c < 65536)
  <2>1. Lead(c) \in Unit /\ Trail(c) \in Unit
    BY SMT, <1>1, <1>3, UnitRange
  <2>2. UnitsOf(c) = << Lead(c), Trail(c) >>
    BY SMT, <1>3 DEF UnitsOf, Lead, Trail
  <2> QED
    BY <2>1, <2>2, ShortSeqs
<1> QED
  BY SMT, <1>2, <1>3

LEMMA UnitsEmpty == Units(<< >>) = << >>
<1>1. \A i : i \notin 1 .. 0
  BY SMT
<1>2. Len(<< >>) = 0
  BY SMT
<1>3. [i \in 1 .. 0 |-> UnitsOf(<< >>[i])] = << >>
  BY SMT, <1>1
<1> QED
  BY <1>2, <1>3, FlattenEmpty DEF Units

LEMMA UnitPiecesAppend ==
    ASSUME NEW cs \in Seq(Scalar), NEW c \in Scalar
    PROVE  /\ [i \in 1 .. Len(cs) |-> UnitsOf(cs[i])] \in Seq(Seq(Unit))
           /\ [i \in 1 .. Len(Append(cs, c)) |-> UnitsOf(Append(cs, c)[i])]
                = Append([i \in 1 .. Len(cs) |-> UnitsOf(cs[i])], UnitsOf(c))
<1> DEFINE n == Len(cs)
<1>1. n \in Nat /\ Len(Append(cs, c)) = n + 1
      /\ (\A i \in 1 .. n : cs[i] \in Scalar /\ Append(cs, c)[i] = cs[i])
      /\ Append(cs, c)[n + 1] = c
      /\ \A i \in 1 .. n + 1 : i \in 1 .. n \/ i = n + 1
  BY SMT
<1> HIDE DEF n
<1>2. [i \in 1 .. n |-> UnitsOf(cs[i])] \in Seq(Seq(Unit))
  BY <1>1, UnitsOfUnits
<1>3. [i \in 1 .. n + 1 |-> UnitsOf(Append(cs, c)[i])]
        = Append([i \in 1 .. n |-> UnitsOf(cs[i])], UnitsOf(c))
  BY SMT, <1>1
<1> QED
  BY <1>1, <1>2, <1>3 DEF n

LEMMA UnitsAppend ==
    ASSUME NEW cs \in Seq(Scalar), NEW c \in Scalar
    PROVE  Units(Append(cs, c)) = Units(cs) \o UnitsOf(c)
<1>1. UnitsOf(c) \in Seq(Unit)
  BY UnitsOfUnits
<1> QED
  BY <1>1, UnitPiecesAppend, FlattenAppend DEF Units

LEMMA UnitsType ==
    ASSUME NEW cs \in Seq(Scalar)
    PROVE  Units(cs) \in Seq(Unit)
<1> DEFINE B == {k \in 0 .. Len(cs) : Units(SubSeq(cs, 1, k)) \in Seq(Unit)}
<1>1. Len(cs) \in Nat /\ 0 \in 0 .. Len(cs) /\ Len(cs) \in 0 .. Len(cs)
  BY SMT
<1>2. 0 \in B
  <2>1. Units(SubSeq(cs, 1, 0)) = << >>
    BY PrefixEmpty, UnitsEmpty
  <2>2. << >> \in Seq(Unit)
    BY EmptySeq
  <2> QED
    BY <1>1, <2>1, <2>2
<1>3. ASSUME NEW k \in 1 .. Len(cs), k - 1 \in B PROVE k \in B
  <2>1. /\ SubSeq(cs, 1, k - 1) \in Seq(Scalar)
        /\ cs[k] \in Scalar
        /\ SubSeq(cs, 1, k) = Append(SubSeq(cs, 1, k - 1), cs[k])
    BY PrefixText
  <2>2. Units(SubSeq(cs, 1, k))
             = Units(SubSeq(cs, 1, k - 1)) \o UnitsOf(cs[k])
    BY <2>1, UnitsAppend
  <2>3. UnitsOf(cs[k]) \in Seq(Unit)
    BY <2>1, UnitsOfUnits
  <2>4. k \in 0 .. Len(cs)
    BY SMT
  <2>5. Units(SubSeq(cs, 1, k - 1)) \in Seq(Unit)
    BY <1>3
  <2>6. Units(SubSeq(cs, 1, k)) \in Seq(Unit)
    BY <2>2, <2>3, <2>5, ConcatProperties
  <2> QED
    BY <2>4, <2>6
<1>4. \A k \in 0 .. Len(cs) : k \in B
  <2> HIDE DEF B
  <2> QED
    BY <1>1, <1>2, <1>3, Climb
<1>5. Len(cs) \in B
  BY <1>1, <1>4
<1> QED
  BY <1>5, PrefixEmpty

-----------------------------------------------------------------------------
(* The characters of a string of UTF-16 units.                             *)

\* The equation of CharactersOf's recursive function.
UpToAt(f, string, n) ==
    IF n = 0 THEN {<< >>}
    ELSE LET unit == string[n]
         IN  CASE IsLead(unit)  -> {}
               [] IsTrail(unit) ->
                    {Append(cs, Joined(string[n - 1], unit)) :
                       cs \in IF n > 1 /\ IsLead(string[n - 1])
                              THEN f[n - 2] ELSE {}}
               [] OTHER         -> {Append(cs, unit) : cs \in f[n - 1]}

\* The same past the first unit, from what came two units and one unit before.
UpToBy(two, one, string, n) ==
    LET unit == string[n]
    IN  CASE IsLead(unit)  -> {}
          [] IsTrail(unit) ->
               {Append(cs, Joined(string[n - 1], unit)) : cs \in two}
          [] OTHER         -> {Append(cs, unit) : cs \in one}

UpTo(f, string, m) == f = [n \in 0 .. m |-> UpToAt(f, string, n)]

LEMMA CharactersOfUpTo ==
    ASSUME NEW string
    PROVE  CharactersOf(string) = CHOOSE f : UpTo(f, string, Len(string))
BY Zenon DEF CharactersOf, UpTo, UpToAt

LEMMA LeadOrTrail ==
    ASSUME NEW unit, IsTrail(unit), unit \in Nat
    PROVE  ~ IsLead(unit)
BY SMT DEF IsLead, IsTrail, Between

LEMMA UpToCases ==
    ASSUME NEW f, NEW string \in Seq(Unit), NEW n \in 0 .. Len(string)
    PROVE  /\ n = 0 => UpToAt(f, string, n) = {<< >>}
           /\ (n # 0 /\ IsLead(string[n])) => UpToAt(f, string, n) = {}
           /\ (n # 0 /\ IsTrail(string[n]) /\ n > 1 /\ IsLead(string[n - 1]))
                => UpToAt(f, string, n)
                     = {Append(cs, Joined(string[n - 1], string[n])) : cs \in f[n - 2]}
           /\ (n # 0 /\ IsTrail(string[n]) /\ ~ (n > 1 /\ IsLead(string[n - 1])))
                => UpToAt(f, string, n) = {}
           /\ (n # 0 /\ ~ IsLead(string[n]) /\ ~ IsTrail(string[n]))
                => UpToAt(f, string, n) = {Append(cs, string[n]) : cs \in f[n - 1]}
<1>1. n = 0 => UpToAt(f, string, n) = {<< >>}
  BY Zenon DEF UpToAt
<1>2. (n # 0 /\ IsLead(string[n])) => UpToAt(f, string, n) = {}
  <2> SUFFICES ASSUME n # 0, IsLead(string[n]) PROVE UpToAt(f, string, n) = {}
    OBVIOUS
  <2>1. ~ IsTrail(string[n])
    <3>1. string[n] \in Unit
      <4>1. n \in 1 .. Len(string)
        BY SMT
      <4> QED
        BY <4>1, ElementOfSeq
    <3>2. string[n] \in Nat
      BY <3>1 DEF Unit
    <3> QED
      BY <3>2, LeadOrTrail
  <2> QED
    BY Zenon, <2>1 DEF UpToAt
<1>3. ASSUME n # 0, IsTrail(string[n])
      PROVE  UpToAt(f, string, n)
               = {Append(cs, Joined(string[n - 1], string[n])) :
                    cs \in IF n > 1 /\ IsLead(string[n - 1]) THEN f[n - 2] ELSE {}}
  <2>1. ~ IsLead(string[n])
    <3>1. string[n] \in Unit
      <4>1. n \in 1 .. Len(string)
        BY SMT, <1>3
      <4> QED
        BY <4>1, ElementOfSeq
    <3>2. string[n] \in Nat
      BY <3>1 DEF Unit
    <3> QED
      BY <1>3, <3>2, LeadOrTrail
  <2> QED
    BY Zenon, <1>3, <2>1 DEF UpToAt
<1>4. (n # 0 /\ ~ IsLead(string[n]) /\ ~ IsTrail(string[n]))
        => UpToAt(f, string, n) = {Append(cs, string[n]) : cs \in f[n - 1]}
  BY Zenon DEF UpToAt
<1>5. (n # 0 /\ IsTrail(string[n]) /\ n > 1 /\ IsLead(string[n - 1]))
        => UpToAt(f, string, n)
             = {Append(cs, Joined(string[n - 1], string[n])) : cs \in f[n - 2]}
  BY <1>3
<1>6. (n # 0 /\ IsTrail(string[n]) /\ ~ (n > 1 /\ IsLead(string[n - 1])))
        => UpToAt(f, string, n) = {}
  BY <1>3
<1> QED
  BY Zenon, <1>1, <1>2, <1>4, <1>5, <1>6

LEMMA UpToExists ==
    ASSUME NEW string
    PROVE  \A m \in Nat : \E f : UpTo(f, string, m)
<1> SUFFICES ASSUME NEW m \in Nat PROVE \E f : UpTo(f, string, m)
  OBVIOUS
<1> DEFINE B == {j \in 0 .. m : \E f : UpTo(f, string, j)}
<1>1. 0 \in 0 .. m /\ m \in 0 .. m
  BY SMT
<1>2. 0 \in B
  <2> DEFINE f == [n \in 0 .. 0 |-> {<< >>}]
  <2>1. \A n \in 0 .. 0 : UpToAt(f, string, n) = {<< >>}
    <3>1. \A n \in 0 .. 0 : n = 0
      BY SMT
    <3> QED
      BY Zenon, <3>1 DEF UpToAt
  <2>2. f = [n \in 0 .. 0 |-> {<< >>}]
    OBVIOUS
  <2> HIDE DEF f
  <2>3. UpTo(f, string, 0)
    BY Zenon, <2>1, <2>2 DEF UpTo
  <2> QED
    BY <1>1, <2>3
<1>3. ASSUME NEW k \in 1 .. m, k - 1 \in B PROVE k \in B
  <2>1. PICK g : UpTo(g, string, k - 1)
    BY <1>3
  <2> DEFINE f == [n \in 0 .. k |-> UpToAt(g, string, n)]
  <2>2. ASSUME NEW n \in 0 .. k PROVE UpToAt(g, string, n) = UpToAt(f, string, n)
    <3>1. ASSUME NEW i \in 0 .. k - 1 PROVE g[i] = f[i]
      <4>1. i \in 0 .. k
        BY SMT
      <4>2. g[i] = UpToAt(g, string, i)
        BY Zenon, <2>1 DEF UpTo
      <4> QED
        BY Zenon, <4>1, <4>2
    <3>2. /\ n # 0 => n - 1 \in 0 .. k - 1
          /\ n > 1 => n - 2 \in 0 .. k - 1
      BY SMT
    <3> HIDE DEF f
    <3>3. CASE n = 0
      BY Zenon, <3>3 DEF UpToAt
    <3>4. CASE n # 0
      <4>1. g[n - 1] = f[n - 1] /\ (n > 1 => g[n - 2] = f[n - 2])
        BY <3>1, <3>2, <3>4
      <4>2. (IF n > 1 /\ IsLead(string[n - 1]) THEN g[n - 2] ELSE {})
            = (IF n > 1 /\ IsLead(string[n - 1]) THEN f[n - 2] ELSE {})
        BY Zenon, <4>1
      <4>3. /\ UpToAt(g, string, n)
                 = UpToBy(IF n > 1 /\ IsLead(string[n - 1]) THEN g[n - 2] ELSE {},
                          g[n - 1], string, n)
            /\ UpToAt(f, string, n)
                 = UpToBy(IF n > 1 /\ IsLead(string[n - 1]) THEN f[n - 2] ELSE {},
                          f[n - 1], string, n)
        BY Zenon, <3>4 DEF UpToAt, UpToBy
      <4> DEFINE gt == IF n > 1 /\ IsLead(string[n - 1]) THEN g[n - 2] ELSE {}
                 ft == IF n > 1 /\ IsLead(string[n - 1]) THEN f[n - 2] ELSE {}
                 go == g[n - 1]
                 fo == f[n - 1]
      <4>4. /\ gt = ft /\ go = fo
            /\ UpToAt(g, string, n) = UpToBy(gt, go, string, n)
            /\ UpToAt(f, string, n) = UpToBy(ft, fo, string, n)
        BY <4>1, <4>2, <4>3
      <4> HIDE DEF gt, ft, go, fo
      <4> QED
        BY <4>4
    <3> QED
      BY <3>3, <3>4
  <2>3. f = [n \in 0 .. k |-> UpToAt(g, string, n)]
    OBVIOUS
  <2> HIDE DEF f
  <2>4. UpTo(f, string, k)
    BY Zenon, <2>2, <2>3 DEF UpTo
  <2>5. k \in 0 .. m
    BY SMT
  <2> QED
    BY <2>4, <2>5
<1>4. \A j \in 0 .. m : j \in B
  <2> HIDE DEF B
  <2> QED
    BY <1>2, <1>3, Climb
<1> QED
  BY <1>1, <1>4

\* A character made of the first n units of a string.
OfText(cs, string, n) == /\ cs \in Seq(Scalar)
                         /\ Units(cs) = SubSeq(string, 1, n)
                         /\ Len(Encoding(cs)) <= 4 * n

LEMMA UnitAt ==
    ASSUME NEW string \in Seq(Unit), NEW n \in 1 .. Len(string)
    PROVE  /\ string[n] \in Unit /\ string[n] \in Nat /\ string[n] <= 65535
           /\ n - 1 \in 0 .. Len(string) /\ n \in 0 .. Len(string) /\ n \in Nat /\ n # 0
<1>1. string[n] \in Unit
  BY ElementOfSeq
<1>2. string[n] \in Nat /\ string[n] <= 65535
  BY <1>1 DEF Unit
<1>3. n - 1 \in 0 .. Len(string) /\ n \in 0 .. Len(string) /\ n \in Nat /\ n # 0
  BY SMT
<1> QED
  BY <1>1, <1>2, <1>3

\* A unit that is no surrogate is a character, two that are a pair make one.
LEMMA SingleUnit ==
    ASSUME NEW u \in Nat, u <= 65535, ~ IsLead(u), ~ IsTrail(u)
    PROVE  u \in Scalar /\ UnitsOf(u) = << u >>
<1>1. u \in Scalar
  BY SMT DEF IsLead, IsTrail, Between, Scalar, CodePoint
<1>2. UnitsOf(u) = << u >>
  BY SMT DEF UnitsOf
<1> QED
  BY <1>1, <1>2

LEMMA PairedUnits ==
    ASSUME NEW l \in Nat, NEW t \in Nat, IsLead(l), IsTrail(t)
    PROVE  Joined(l, t) \in Scalar /\ UnitsOf(Joined(l, t)) = << l, t >>
<1>1. PICK a \in Nat, b \in Nat : /\ l = 55296 + a /\ t = 56320 + b
                                  /\ a <= 1023 /\ b <= 1023
  <2>1. /\ l - 55296 \in Nat /\ t - 56320 \in Nat
        /\ l = 55296 + (l - 55296) /\ t = 56320 + (t - 56320)
        /\ l - 55296 <= 1023 /\ t - 56320 <= 1023
    BY SMT DEF IsLead, IsTrail, Between
  <2> QED
    BY <2>1
<1>2. PICK c \in Nat : c = 65536 + a * 1024 + b
  BY SMT
<1>3. Joined(l, t) = c
  BY SMT, <1>1, <1>2 DEF Joined
<1>4. c \in Scalar
  BY SMT, <1>1, <1>2 DEF Scalar, CodePoint, Between
<1>5. ~ (c < 65536) /\ c - 65536 = a * 1024 + b
  BY SMT, <1>1, <1>2
<1>6. (c - 65536) \div 1024 = a /\ (c - 65536) % 1024 = b
  BY SMT, <1>1, <1>5
<1>7. UnitsOf(c) = << l, t >>
  BY SMT, <1>1, <1>5, <1>6 DEF UnitsOf
<1> QED
  BY <1>3, <1>4, <1>7

\* Appending a character to a text and its units to a string.
LEMMA OfTextAppend ==
    ASSUME NEW string \in Seq(Unit), NEW k \in Nat, NEW n \in Nat,
           NEW ds, OfText(ds, string, k), k < n,
           NEW c \in Scalar,
           SubSeq(string, 1, n) = SubSeq(string, 1, k) \o UnitsOf(c)
    PROVE  OfText(Append(ds, c), string, n)
<1>1. ds \in Seq(Scalar) /\ Append(ds, c) \in Seq(Scalar)
  BY AppendProperties DEF OfText
<1>2. /\ Encoding(Append(ds, c)) = Encoding(ds) \o EncodeChar(c)
      /\ Units(Append(ds, c)) = Units(ds) \o UnitsOf(c)
  BY <1>1, EncodingAppend, UnitsAppend
<1>3. Units(Append(ds, c)) = SubSeq(string, 1, n)
  BY <1>2 DEF OfText
<1>4. /\ Encoding(ds) \in Seq(Byte) /\ EncodeChar(c) \in Seq(Byte)
      /\ Len(EncodeChar(c)) \in 1 .. 4 /\ Len(Encoding(ds)) <= 4 * k
  BY <1>1, TextTypes, UnitsType, EncodeCharBytes DEF OfText
<1>5. Len(Encoding(ds) \o EncodeChar(c)) = Len(Encoding(ds)) + Len(EncodeChar(c))
  BY <1>4, ConcatProperties
<1>6. Len(Encoding(ds)) \in Nat
  BY <1>4, LenProperties
<1>7. Len(Encoding(ds)) + Len(EncodeChar(c)) <= 4 * n
  <2>1. PICK x, y : x = Len(Encoding(ds)) /\ y = Len(EncodeChar(c))
    OBVIOUS
  <2>2. x \in Nat /\ y \in 1 .. 4 /\ x <= 4 * k
    BY <1>4, <1>6, <2>1
  <2>3. x + y <= 4 * n
    BY SMT, <2>2
  <2> QED
    BY <2>1, <2>3
<1> QED
  BY <1>1, <1>2, <1>3, <1>5, <1>7 DEF OfText

\* Whatever CharactersOf finds for the first n units are characters with just
\* these units.
LEMMA CharactersOfText ==
    ASSUME NEW string \in Seq(Unit)
    PROVE  \A n \in 0 .. Len(string) :
              \A cs \in CharactersOf(string)[n] : OfText(cs, string, n)
<1> DEFINE f == CharactersOf(string)
           m == Len(string)
           T(n) == \A cs \in f[n] : OfText(cs, string, n)
           B == {n \in 0 .. m : T(n) /\ (n # 0 => T(n - 1))}
<1>1. UpTo(f, string, m)
  <2>1. m \in Nat
    BY LenProperties
  <2> QED
    BY Zenon, <2>1, UpToExists, CharactersOfUpTo
<1>2. m \in Nat /\ 0 \in 0 .. m
  BY LenProperties, SMT
<1> HIDE DEF f, m
<1>3. \A n \in 0 .. m : f[n] = UpToAt(f, string, n)
  BY Zenon, <1>1 DEF UpTo
<1>4. T(0)
  <2>1. f[0] = {<< >>}
    BY Zenon, <1>2, <1>3 DEF UpToAt
  <2>2. Len(<< >>) = 0 /\ 0 <= 4 * 0
    BY SMT
  <2>3. OfText(<< >>, string, 0)
    <3>1. SubSeq(string, 1, 0) = << >>
      BY SMT, SubSeqEmpty
    <3> QED
      BY <2>2, <3>1, EncodingEmpty, UnitsEmpty, EmptySeq DEF OfText
  <2> QED
    BY <2>1, <2>3
<1>5. 0 \in B
  BY <1>2, <1>4
<1>6. ASSUME NEW n \in 1 .. m, n - 1 \in B PROVE n \in B
  <2>1. /\ string[n] \in Nat /\ string[n] <= 65535
        /\ n - 1 \in 0 .. m /\ n \in 0 .. m /\ n \in Nat /\ n # 0
        /\ n - 1 \in Nat /\ n - 1 < n /\ n \in 1 .. Len(string)
    BY SMT, UnitAt DEF m
  <2>2. T(n - 1) /\ (n - 1 # 0 => T((n - 1) - 1))
    BY <1>6
  <2>3. f[n] = UpToAt(f, string, n)
    BY <1>3, <2>1
  <2>4. SubSeq(string, 1, n) = SubSeq(string, 1, n - 1) \o << string[n] >>
    <3>1. 1 \in Int /\ n \in Int /\ 1 <= n /\ 1 \in 1 .. Len(string)
      BY SMT, <2>1
    <3>2. SubSeq(string, 1, n) = Append(SubSeq(string, 1, n - 1), string[n])
      BY <2>1, <3>1, SubSeqRecursiveSecond
    <3>3. SubSeq(string, 1, n - 1) \in Seq(Unit) /\ string[n] \in Unit
      <4>1. \A i \in 1 .. n - 1 : i \in 1 .. Len(string)
        BY SMT, <2>1
      <4>2. n - 1 \in Int
        BY SMT, <2>1
      <4> QED
        BY <2>1, <3>1, <4>1, <4>2, UnitAt, SubSeqProperties
    <3> QED
      BY <3>2, <3>3, AppendIsConcat
  <2>5. ASSUME NEW cs \in f[n] PROVE OfText(cs, string, n)
    <3>1. CASE IsLead(string[n])
      BY <2>1, <2>3, <2>5, <3>1, UpToCases DEF m
    <3>2. CASE ~ IsLead(string[n]) /\ ~ IsTrail(string[n])
      <4>1. f[n] = {Append(ds, string[n]) : ds \in f[n - 1]}
        BY <2>1, <2>3, <3>2, UpToCases DEF m
      <4>2. PICK ds \in f[n - 1] : cs = Append(ds, string[n])
        BY <2>5, <4>1
      <4>3. string[n] \in Scalar /\ UnitsOf(string[n]) = << string[n] >>
        BY <2>1, <3>2, SingleUnit
      <4>4. OfText(ds, string, n - 1)
        BY <2>2
      <4>5. PICK c : c = string[n]
        OBVIOUS
      <4>6. c \in Scalar /\ UnitsOf(c) \in Seq(Unit)
        BY <4>3, <4>5, UnitsOfUnits
      <4>7. PICK k : k = n - 1
        OBVIOUS
      <4>8. SubSeq(string, 1, n) = SubSeq(string, 1, n - 1) \o UnitsOf(c)
        BY <2>4, <4>3, <4>5
      <4>9. /\ k \in Nat /\ k < n /\ n \in Nat /\ OfText(ds, string, k)
            /\ SubSeq(string, 1, n) = SubSeq(string, 1, k) \o UnitsOf(c)
        <5>1. k \in Nat /\ k < n /\ n \in Nat
          BY <2>1, <4>7
        <5>2. OfText(ds, string, k)
          BY <4>4, <4>7
        <5>3. SubSeq(string, 1, n) = SubSeq(string, 1, k) \o UnitsOf(c)
          BY <4>7, <4>8
        <5> QED
          BY <5>1, <5>2, <5>3
      <4>10. OfText(Append(ds, c), string, n)
        BY ONLY <4>6, <4>9, OfTextAppend, string \in Seq(Unit)
      <4> QED
        BY <4>2, <4>5, <4>10
    <3>3. CASE IsTrail(string[n]) /\ ~ IsLead(string[n])
      <4>1. /\ n > 1 /\ IsLead(string[n - 1])
            /\ f[n] = {Append(ds, Joined(string[n - 1], string[n])) : ds \in f[n - 2]}
        BY <2>1, <2>3, <2>5, <3>3, UpToCases DEF m
      <4>2. /\ n - 1 \in 1 .. Len(string) /\ n - 1 # 0 /\ (n - 1) - 1 = n - 2
            /\ n - 2 \in Nat /\ n - 2 < n /\ 1 \in Int /\ n - 1 \in Int
            /\ 1 <= n - 1 /\ n - 2 \in Int /\ 1 \in 1 .. Len(string)
        BY SMT, <2>1, <4>1
      <4>3. PICK ds \in f[n - 2] : cs = Append(ds, Joined(string[n - 1], string[n]))
        BY <2>5, <4>1
      <4>4. OfText(ds, string, n - 2)
        BY <2>2, <4>2
      <4>5. PICK c : c = Joined(string[n - 1], string[n])
        OBVIOUS
      <4>6. c \in Scalar /\ UnitsOf(c) = << string[n - 1], string[n] >>
        BY <2>1, <3>3, <4>1, <4>2, <4>5, PairedUnits, UnitAt
      <4>7. PICK k : k = n - 2
        OBVIOUS
      <4>8. /\ SubSeq(string, 1, n - 1) = Append(SubSeq(string, 1, n - 2), string[n - 1])
            /\ SubSeq(string, 1, n) = Append(SubSeq(string, 1, n - 1), string[n])
        <5>1. SubSeq(string, 1, n - 1)
                = Append(SubSeq(string, 1, (n - 1) - 1), string[n - 1])
          BY <4>2, SubSeqRecursiveSecond
        <5>2. 1 <= n /\ n \in Int
          BY SMT, <2>1
        <5>3. SubSeq(string, 1, n) = Append(SubSeq(string, 1, n - 1), string[n])
          BY <2>1, <4>2, <5>2, SubSeqRecursiveSecond
        <5> QED
          BY <4>2, <5>1, <5>3
      <4>9. /\ SubSeq(string, 1, n - 2) \in Seq(Unit)
            /\ string[n] \in Unit /\ string[n - 1] \in Unit
        <5>1. \A i \in 1 .. n - 2 : i \in 1 .. Len(string)
          BY SMT, <2>1
        <5> QED
          BY <2>1, <4>2, <5>1, UnitAt, SubSeqProperties
      <4>10. ASSUME NEW S, NEW a \in Seq(S), NEW x \in S, NEW y \in S
             PROVE  Append(Append(a, x), y) = a \o << x, y >>
        BY SMT
      <4>11. SubSeq(string, 1, n) = SubSeq(string, 1, n - 2) \o UnitsOf(c)
        BY <4>6, <4>8, <4>9, <4>10
      <4>12. /\ k \in Nat /\ k < n /\ n \in Nat /\ OfText(ds, string, k)
             /\ SubSeq(string, 1, n) = SubSeq(string, 1, k) \o UnitsOf(c)
        <5>1. k \in Nat /\ k < n /\ n \in Nat
          BY <2>1, <4>2, <4>7
        <5>2. OfText(ds, string, k)
          BY <4>4, <4>7
        <5>3. SubSeq(string, 1, n) = SubSeq(string, 1, k) \o UnitsOf(c)
          BY <4>7, <4>11
        <5> QED
          BY <5>1, <5>2, <5>3
      <4>13. OfText(Append(ds, c), string, n)
        BY ONLY <4>6, <4>12, OfTextAppend, string \in Seq(Unit)
      <4> QED
        BY <4>3, <4>5, <4>13
    <3> QED
      BY <3>1, <3>2, <3>3
  <2> QED
    BY <2>1, <2>2, <2>5
<1>7. \A n \in 0 .. m : n \in B
  <2> HIDE DEF B
  <2> QED
    BY <1>2, <1>5, <1>6, Climb
<1>8. \A n \in 0 .. m : T(n)
  BY <1>7
<1> QED
  BY <1>8 DEF f, m

-----------------------------------------------------------------------------
(* What the frameworks' conversions answer.                                *)

\* The converted openings of a string that Conversion chooses from.
Openings(string) ==
    UNION {{[units |-> n, bytes |-> Encoding(cs)] :
              cs \in CharactersOf(string)[n]} : n \in 0 .. Len(string)}

Longest(c, string, room) ==
    /\ Len(c.bytes) <= room
    /\ \A d \in Openings(string) : Len(d.bytes) <= room => d.units <= c.units

LEMMA ConversionLongest ==
    ASSUME NEW string, NEW room
    PROVE  Conversion(string, room)
             = CHOOSE c \in Openings(string) : Longest(c, string, room)
BY Zenon DEF Conversion, Openings, Longest

LEMMA PrefixForm ==
    ASSUME NEW string \in Seq(Unit)
    PROVE  /\ \A d \in Openings(string) :
                 /\ d.units \in 0 .. Len(string)
                 /\ \E cs \in CharactersOf(string)[d.units] : d.bytes = Encoding(cs)
           /\ \A n \in 0 .. Len(string) : \A cs \in CharactersOf(string)[n] :
                 [units |-> n, bytes |-> Encoding(cs)] \in Openings(string)
<1>1. ASSUME NEW d \in Openings(string)
      PROVE  /\ d.units \in 0 .. Len(string)
             /\ \E cs \in CharactersOf(string)[d.units] : d.bytes = Encoding(cs)
  <2>1. PICK n \in 0 .. Len(string) :
          d \in {[units |-> n, bytes |-> Encoding(cs)] : cs \in CharactersOf(string)[n]}
    BY DEF Openings
  <2>2. PICK cs \in CharactersOf(string)[n] : d = [units |-> n, bytes |-> Encoding(cs)]
    BY <2>1
  <2>3. d.units = n /\ d.bytes = Encoding(cs)
    BY <2>2
  <2> QED
    BY <2>3
<1>2. ASSUME NEW n \in 0 .. Len(string), NEW cs \in CharactersOf(string)[n]
      PROVE  [units |-> n, bytes |-> Encoding(cs)] \in Openings(string)
  BY DEF Openings
<1> QED
  BY <1>1, <1>2

\* No unit is no character: what CharactersOf finds before the first unit.
LEMMA NoUnits ==
    ASSUME NEW string \in Seq(Unit)
    PROVE  << >> \in CharactersOf(string)[0]
<1>1. Len(string) \in Nat /\ 0 \in 0 .. Len(string)
  BY LenProperties, SMT
<1>2. UpTo(CharactersOf(string), string, Len(string))
  BY Zenon, <1>1, UpToExists, CharactersOfUpTo
<1>3. CharactersOf(string)[0] = {<< >>}
  <2>1. PICK f : f = CharactersOf(string)
    OBVIOUS
  <2>2. f[0] = UpToAt(f, string, 0)
    BY Zenon, <1>1, <1>2, <2>1 DEF UpTo
  <2> QED
    BY Zenon, <2>1, <2>2 DEF UpToAt
<1> QED
  BY <1>3

\* Some prefix is the longest that fits, and a conversion answers it.
LEMMA Converted ==
    ASSUME NEW string \in Seq(Unit), NEW room \in Nat
    PROVE  /\ Conversion(string, room) \in Openings(string)
           /\ Longest(Conversion(string, room), string, room)
<1> DEFINE fitting == {n \in 0 .. Len(string) :
                         \E d \in Openings(string) :
                            d.units = n /\ Len(d.bytes) <= room}
<1>1. Len(string) \in Nat /\ 0 \in 0 .. Len(string)
  BY LenProperties, SMT
<1>2. 0 \in fitting
  <2>1. [units |-> 0, bytes |-> Encoding(<< >>)] \in Openings(string)
    BY <1>1, NoUnits, PrefixForm
  <2>2. Len(Encoding(<< >>)) <= room
    BY EncodingEmpty, UnitsEmpty
  <2> QED
    BY <1>1, <2>1, <2>2
<1>3. PICK n \in fitting : \A k \in fitting : k <= n
  <2>1. fitting \in SUBSET (0 .. Len(string)) /\ fitting # {}
    BY <1>2
  <2> HIDE DEF fitting
  <2> QED
    BY <1>1, <2>1, Greatest
<1>4. PICK c \in Openings(string) : c.units = n /\ Len(c.bytes) <= room
  OBVIOUS
<1>5. Longest(c, string, room)
  <2>1. ASSUME NEW d \in Openings(string), Len(d.bytes) <= room
        PROVE  d.units <= c.units
    <3>1. d.units \in fitting
      BY <2>1, PrefixForm
    <3> HIDE DEF fitting
    <3> QED
      BY <1>3, <1>4, <3>1
  <2> QED
    BY <1>4, <2>1 DEF Longest
<1> QED
  BY Zenon, <1>4, <1>5, ConversionLongest

\* A conversion into enough room is whole exactly when the string has UTF-8; its
\* bytes are then the same text as the string, and as much room as they take is
\* enough.
LEMMA WholeConversion ==
    ASSUME NEW string \in Seq(Unit), NEW room \in Nat
    PROVE  LET c == Conversion(string, room)
           IN  /\ c.units \in 0 .. Len(string)
               /\ c.bytes \in Seq(Byte) /\ Len(c.bytes) <= room
               /\ c.units = Len(string)
                    => /\ Convertible(string)
                       /\ WellFormed(c.bytes) /\ ToUnits(c.bytes) = string
                       /\ Conversion(string, Len(c.bytes)).units = Len(string)
<1> DEFINE c == Conversion(string, room)
           m == Len(string)
<1>1. c \in Openings(string) /\ Longest(c, string, room)
  BY Converted
<1>2. PICK cs \in CharactersOf(string)[c.units] : c.bytes = Encoding(cs)
  BY <1>1, PrefixForm
<1>3. c.units \in 0 .. m
  BY <1>1, PrefixForm
<1>4. OfText(cs, string, c.units)
  BY <1>2, <1>3, CharactersOfText
<1>5. cs \in Seq(Scalar) /\ Units(cs) = SubSeq(string, 1, c.units)
  BY <1>4 DEF OfText
<1>6. c.bytes \in Seq(Byte) /\ Len(c.bytes) <= room /\ Len(c.bytes) \in Nat
  <2>1. c.bytes \in Seq(Byte)
    BY <1>2, <1>5, TextTypes, UnitsType
  <2>2. Len(c.bytes) <= room
    BY <1>1 DEF Longest
  <2> QED
    BY <2>1, <2>2, LenProperties
<1>7. ASSUME c.units = m
      PROVE  /\ Convertible(string)
             /\ WellFormed(c.bytes) /\ ToUnits(c.bytes) = string
             /\ Conversion(string, Len(c.bytes)).units = m
  <2>1. cs \in CharactersOf(string)[m]
    BY <1>2, <1>7
  <2>2. Convertible(string)
    BY <2>1 DEF Convertible
  <2>3. Characters(c.bytes) = cs
    BY <1>2, <1>5, CharactersEncoding
  <2>4. WellFormed(c.bytes)
    BY <1>2, <2>3 DEF WellFormed
  <2>5. ToUnits(c.bytes) = Units(cs)
    BY Zenon, <2>3 DEF ToUnits, Units
  <2>6. SubSeq(string, 1, m) = string
    BY SubSeqFull
  <2>7. ToUnits(c.bytes) = string
    BY <1>5, <1>7, <2>5, <2>6
  <2>8. PICK room2 \in Nat : room2 = Len(c.bytes)
    BY <1>6
  <2>9. PICK d : d = Conversion(string, room2)
    OBVIOUS
  <2>10. d \in Openings(string) /\ Longest(d, string, room2)
    BY <2>9, Converted
  <2>11. c.units <= d.units
    <3>1. Len(c.bytes) <= room2
      BY <2>8
    <3> QED
      BY <1>1, <2>10, <3>1 DEF Longest
  <2>12. d.units = m
    <3>1. d.units \in 0 .. m /\ m \in Nat
      BY <2>10, PrefixForm, LenProperties
    <3> QED
      BY <1>7, <2>11, <3>1
  <2> QED
    BY <2>2, <2>4, <2>7, <2>8, <2>9, <2>12
<1> QED
  BY <1>3, <1>6, <1>7

LEMMA UnboundedEnough ==
    ASSUME NEW string \in Seq(Unit)
    PROVE  /\ Unbounded(string) \in Nat
           /\ Convertible(string)
                => Conversion(string, Unbounded(string)).units = Len(string)
<1>1. Len(string) \in Nat /\ Unbounded(string) \in Nat /\ Len(string) \in 0 .. Len(string)
  <2>1. Len(string) \in Nat
    BY LenProperties
  <2> QED
    BY <2>1, SMT DEF Unbounded
<1>2. ASSUME Convertible(string)
      PROVE  Conversion(string, Unbounded(string)).units = Len(string)
  <2>1. PICK cs : cs \in CharactersOf(string)[Len(string)]
    BY <1>2 DEF Convertible
  <2>2. Len(Encoding(cs)) <= Unbounded(string)
    BY <1>1, <2>1, CharactersOfText DEF OfText, Unbounded
  <2>3. PICK d : d = [units |-> Len(string), bytes |-> Encoding(cs)]
    OBVIOUS
  <2>4. d \in Openings(string) /\ d.units = Len(string) /\ Len(d.bytes) <= Unbounded(string)
    BY <1>1, <2>1, <2>2, <2>3, PrefixForm
  <2>5. PICK c : c = Conversion(string, Unbounded(string))
    OBVIOUS
  <2>6. c \in Openings(string) /\ Longest(c, string, Unbounded(string))
    BY <1>1, <2>5, Converted
  <2>7. Len(string) <= c.units
    BY <2>4, <2>6 DEF Longest
  <2>8. c.units \in 0 .. Len(string)
    BY <2>6, PrefixForm
  <2> QED
    BY <1>1, <2>5, <2>7, <2>8
<1> QED
  BY <1>1, <1>2

\* CFStringGetBytes's measuring pass, as LeoUTF8CopyUTF8DataFromCFString makes
\* it, is whole exactly when the string has UTF-8.  The pass that fills the
\* buffer, with just the room the first one measured, is then whole again, and
\* its bytes are the same text as the string.
THEOREM TwoPassesWhole ==
    ASSUME NEW string \in Seq(Unit)
    PROVE  LET measured == Conversion(string, Unbounded(string))
               filled   == Conversion(string, Len(measured.bytes))
           IN  /\ measured.units = Len(string) <=> Convertible(string)
               /\ measured.units = Len(string) =>
                     /\ filled.units = Len(string)
                     /\ Len(filled.bytes) <= Len(measured.bytes)
                     /\ filled.bytes \in Seq(Byte)
                     /\ WellFormed(filled.bytes) /\ ToUnits(filled.bytes) = string
<1> DEFINE measured == Conversion(string, Unbounded(string))
           filled   == Conversion(string, Len(measured.bytes))
<1>1. /\ measured.bytes \in Seq(Byte)
      /\ measured.units = Len(string)
           => Convertible(string) /\ filled.units = Len(string)
  BY UnboundedEnough, WholeConversion
<1>2. Len(measured.bytes) \in Nat
  BY <1>1, LenProperties
<1>3. /\ Len(filled.bytes) <= Len(measured.bytes) /\ filled.bytes \in Seq(Byte)
      /\ filled.units = Len(string)
           => WellFormed(filled.bytes) /\ ToUnits(filled.bytes) = string
  BY <1>2, WholeConversion
<1> QED
  BY <1>1, <1>3, UnboundedEnough

\* The string made of a byte string is one.
LEMMA ToUnitsString ==
    ASSUME NEW s \in Seq(Byte)
    PROVE  ToUnits(s) \in Seq(Unit)
<1>1. ToUnits(s) = Units(Characters(s))
  BY Zenon DEF ToUnits, Units
<1> QED
  BY <1>1, CharactersScalar, TextTypes, UnitsType

-----------------------------------------------------------------------------
(* Ownership.                                                              *)

\* The function a place in a call belongs to.
CreateSteps == {"create", "make"}
CopySteps   == {"copy", "fill", "data"}
\* Past its checks, a call has a variable to fill, and has cleared it.
MakingSteps == {"make", "fill", "data"}

Shape == /\ call.place \in {NULL} \cup Places
         /\ out \in [Places -> Addresses \cup {NULL}]
         /\ DOMAIN objects \subseteq Addresses
         /\ mine \subseteq Places

\* A call never has a variable the client holds an object in.
CallInProgress ==
    /\ pc # "idle" => call.place \notin mine
    /\ pc \in CreateSteps => call.fn = "create"
    /\ pc \in CopySteps => call.fn = "copy"
    /\ pc \in MakingSteps => call.place \in Places /\ out[call.place] = NULL
    /\ (pc = "returned" /\ status = OK) =>
          call.place \in Places /\ out[call.place] \in DOMAIN objects

BridgeInv == /\ Shape
             /\ CallInProgress
             /\ OneHolderPerObject
             /\ StatusTellsOutput

LEMMA InitBridge == ASSUME ClientInit PROVE BridgeInv
BY DEF ClientInit, NoCall, BridgeInv, Shape, CallInProgress, CreateSteps,
       CopySteps, MakingSteps, OneHolderPerObject, StatusTellsOutput, Pending

LEMMA CallBridge ==
    ASSUME BridgeInv, NEW fn \in {"create", "copy"}, NEW text, NEW length,
           Call(fn, text, length)
    PROVE  BridgeInv'
<1>1. PICK place \in {NULL} \cup (Places \ mine) :
         call' = [fn |-> fn, text |-> text, length |-> length, place |-> place]
  BY DEF Call
<1>2. /\ pc = "idle" /\ pc' = fn
      /\ UNCHANGED << status, out, objects, mine >>
  BY DEF Call
<1>3. call'.fn = fn /\ call'.place = place
  BY <1>1
<1>4. Shape /\ OneHolderPerObject
  BY DEF BridgeInv
<1>5. Shape' /\ NULL \notin mine
  BY <1>2, <1>3, <1>4, NullAssumption DEF Shape
<1>6. CallInProgress'
  BY <1>2, <1>3, <1>5 DEF CallInProgress, CreateSteps, CopySteps, MakingSteps
<1>7. Pending = {} /\ Pending' = {}
  BY <1>2 DEF Pending
<1>8. OneHolderPerObject'
  BY <1>2, <1>4, <1>7 DEF OneHolderPerObject
<1>9. StatusTellsOutput'
  BY <1>2 DEF StatusTellsOutput
<1> QED
  BY <1>5, <1>6, <1>8, <1>9 DEF BridgeInv

\* A step of a call that makes no object: it goes on, or gives up with a status
\* other than LEO_UTF8_OK, and leaves NULL in the variable.
LEMMA QuietBridge ==
    ASSUME BridgeInv,
           pc \in CreateSteps \cup CopySteps,
           \/ pc' = "returned" /\ status' # OK
           \/ /\ pc' \in MakingSteps /\ call.place \in Places
              /\ pc \in CreateSteps => pc' = "make"
              /\ pc \in CopySteps => pc' \in {"fill", "data"},
           ClearOutput \/ (pc \in MakingSteps /\ UNCHANGED out),
           UNCHANGED << call, objects, mine >>
    PROVE  BridgeInv'
<1>1. /\ Shape /\ CallInProgress /\ OneHolderPerObject
      /\ pc # "idle" /\ pc # "returned" /\ call.place \notin mine
  BY DEF BridgeInv, CallInProgress, CreateSteps, CopySteps
<1>2. /\ out' \in [Places -> Addresses \cup {NULL}]
      /\ call.place \in Places => out'[call.place] = NULL
      /\ \A v \in mine : out'[v] = out[v]
  BY <1>1, NullAssumption
     DEF ClearOutput, Shape, CallInProgress
<1>3. /\ pc' # "idle" /\ pc' \notin {"create", "copy"}
      /\ pc' = "returned" => status' # OK
      /\ pc' \in MakingSteps => call.place \in Places
  BY DEF MakingSteps
<1>4. Shape'
  BY <1>1, <1>2 DEF Shape
<1>5. CallInProgress'
  <2>1. pc' \in CreateSteps => pc \in CreateSteps
    BY DEF CreateSteps, CopySteps, MakingSteps
  <2>2. pc' \in CopySteps => pc \in CopySteps
    BY DEF CreateSteps, CopySteps, MakingSteps
  <2> QED
    BY <1>1, <1>2, <1>3, <2>1, <2>2 DEF CallInProgress
<1>6. Pending = {} /\ Pending' = {}
  BY <1>1, <1>3 DEF Pending
<1>7. OneHolderPerObject'
  <2>1. {out'[v] : v \in mine} = {out[v] : v \in mine}
    BY <1>2
  <2> QED
    BY <1>1, <1>2, <1>6, <2>1 DEF OneHolderPerObject
<1>8. StatusTellsOutput'
  BY <1>1, <1>2, <1>3 DEF StatusTellsOutput, Shape
<1> QED
  BY <1>4, <1>5, <1>7, <1>8 DEF BridgeInv

LEMMA DeliverBridge ==
    ASSUME BridgeInv, NEW kind, NEW text, Deliver(kind, text),
           \/ pc = "make" /\ kind = "string"
           \/ pc = "data" /\ kind = "data",
           UNCHANGED << call, mine >>
    PROVE  BridgeInv'
<1>1. PICK a \in Addresses \ DOMAIN objects :
         /\ objects' = [b \in DOMAIN objects \cup {a} |->
                           IF b = a THEN [kind |-> kind, text |-> text]
                           ELSE objects[b]]
         /\ out' = [out EXCEPT ![call.place] = a]
  BY DEF Deliver
<1>2. pc' = "returned" /\ status' = OK
  BY DEF Deliver, Answer
<1>3. /\ Shape /\ OneHolderPerObject
      /\ call.place \in Places /\ call.place \notin mine
      /\ call.fn = IF kind = "string" THEN "create" ELSE "copy"
  BY DEF BridgeInv, CallInProgress, CreateSteps, CopySteps, MakingSteps
<1>4. /\ DOMAIN objects' = DOMAIN objects \cup {a}
      /\ objects'[a].kind = kind
  BY <1>1
<1>5. /\ out' \in [Places -> Addresses \cup {NULL}]
      /\ out'[call.place] = a
      /\ \A v \in mine : out'[v] = out[v]
  BY <1>1, <1>3 DEF Shape
<1>6. Shape'
  BY <1>3, <1>4, <1>5 DEF Shape
<1>7. CallInProgress'
  BY <1>2, <1>3, <1>4, <1>5
     DEF CallInProgress, CreateSteps, CopySteps, MakingSteps
<1>8. Pending = {} /\ Pending' = {a}
  BY <1>2, <1>5 DEF Pending
<1>9. OneHolderPerObject'
  <2>1. DOMAIN objects = {out[v] : v \in mine}
    BY <1>3, <1>8 DEF OneHolderPerObject
  <2>2. \A v \in mine : out[v] # a
    BY <2>1
  <2>3. {out'[v] : v \in mine} = {out[v] : v \in mine}
    BY <1>5
  <2> QED
    BY <1>3, <1>4, <1>5, <1>8, <2>1, <2>2, <2>3 DEF OneHolderPerObject
<1>10. StatusTellsOutput'
  BY <1>2, <1>3, <1>4, <1>5 DEF StatusTellsOutput
<1> QED
  BY <1>6, <1>7, <1>9, <1>10 DEF BridgeInv

-----------------------------------------------------------------------------
(* Between calls.                                                          *)

LEMMA ClientReturnBridge == ASSUME BridgeInv, ClientReturn PROVE BridgeInv'
<1>1. /\ pc = "returned" /\ pc' = "idle" /\ call' = NoCall
      /\ mine' = IF status = OK THEN mine \cup {call.place} ELSE mine
      /\ UNCHANGED << status, out, objects >>
  BY DEF ClientReturn
<1>2. Shape /\ OneHolderPerObject /\ call.place \notin mine
  BY <1>1 DEF BridgeInv, CallInProgress
<1>3. status = OK => call.place \in Places
  BY <1>1 DEF BridgeInv, CallInProgress
<1>4. call'.place = NULL
  BY <1>1 DEF NoCall
<1>5. Shape'
  BY <1>1, <1>2, <1>3, <1>4 DEF Shape
<1>6. CallInProgress'
  BY <1>1 DEF CallInProgress, CreateSteps, CopySteps, MakingSteps
<1>7. Pending' = {}
  BY <1>1 DEF Pending
<1>8. OneHolderPerObject'
  <2>1. CASE status = OK
    <3>1. Pending = {out[call.place]}
      BY <1>1, <2>1 DEF Pending
    <3>2. DOMAIN objects = {out[v] : v \in mine'}
      BY <1>1, <1>2, <2>1, <3>1 DEF OneHolderPerObject
    <3>3. \A v \in mine', w \in mine' : v # w => out[v] # out[w]
      BY <1>1, <1>2, <2>1, <3>1 DEF OneHolderPerObject
    <3> QED
      BY <1>1, <1>7, <3>2, <3>3 DEF OneHolderPerObject
  <2>2. CASE status # OK
    <3>1. Pending = {}
      BY <1>1, <2>2 DEF Pending
    <3> QED
      BY <1>1, <1>2, <1>7, <2>2, <3>1 DEF OneHolderPerObject
  <2> QED
    BY <2>1, <2>2
<1>9. StatusTellsOutput'
  BY <1>1 DEF StatusTellsOutput
<1> QED
  BY <1>5, <1>6, <1>8, <1>9 DEF BridgeInv

LEMMA ClientReleaseBridge == ASSUME BridgeInv, ClientRelease PROVE BridgeInv'
<1>1. PICK v \in mine :
         /\ objects' = [a \in DOMAIN objects \ {out[v]} |-> objects[a]]
         /\ mine' = mine \ {v}
  BY DEF ClientRelease
<1>2. /\ pc = "idle" /\ pc' = "idle"
      /\ UNCHANGED << call, status, out >>
  BY DEF ClientRelease
<1>3. Shape /\ OneHolderPerObject
  BY DEF BridgeInv
<1>4. DOMAIN objects' = DOMAIN objects \ {out[v]}
  BY <1>1
<1>5. Shape'
  BY <1>1, <1>2, <1>3, <1>4 DEF Shape
<1>6. CallInProgress'
  BY <1>2 DEF CallInProgress, CreateSteps, CopySteps, MakingSteps
<1>7. Pending = {} /\ Pending' = {}
  BY <1>2 DEF Pending
<1>8. DOMAIN objects' = {out[w] : w \in mine'}
  BY <1>1, <1>3, <1>4, <1>7 DEF OneHolderPerObject
<1>9. OneHolderPerObject'
  BY <1>1, <1>2, <1>3, <1>7, <1>8 DEF OneHolderPerObject
<1>10. StatusTellsOutput'
  BY <1>2 DEF StatusTellsOutput
<1> QED
  BY <1>5, <1>6, <1>9, <1>10 DEF BridgeInv

\* Both kinds of call are one step of the client.
LEMMA ClientBridge ==
    ASSUME BridgeInv, CallCreate \/ CallCopy \/ ClientReturn \/ ClientRelease
    PROVE  BridgeInv'
<1>1. CASE CallCreate
  <2>1. CASE Call("create", NULL, 0)
    BY <2>1, CallBridge
  <2>2. ASSUME NEW s \in Inputs, NEW n \in {0, LONG_MAX},
               Call("create", s, IF n = 0 THEN Len(s) ELSE n + 1)
        PROVE  BridgeInv'
    BY <2>2, CallBridge
  <2> QED
    BY <1>1, <2>1, <2>2 DEF CallCreate
<1>2. CASE CallCopy
  <2>1. PICK string \in Known \cup {NULL} : Call("copy", string, 0)
    BY <1>2 DEF CallCopy
  <2> QED
    BY <2>1, CallBridge
<1> QED
  BY <1>1, <1>2, ClientReturnBridge, ClientReleaseBridge

\* The invariant speaks of the client's variables only.
LEMMA StutterBridge == ASSUME BridgeInv, UNCHANGED client PROVE BridgeInv'
BY DEF client, BridgeInv, Shape, CallInProgress, OneHolderPerObject,
       StatusTellsOutput, Pending

-----------------------------------------------------------------------------
(* Texts that cross.                                                       *)

CallTyped == /\ call \in [fn : {"none", "create", "copy"},
                          text : {NULL} \cup Seq(Unit), length : Nat,
                          place : {NULL} \cup Places]
             /\ status \in Status

ObjectsTyped == \A a \in DOMAIN objects : objects[a].text \in Seq(Unit)

\* Past its checks, a call has a text that can cross.
CallChecked ==
    /\ pc \in CreateSteps => call.text \in {NULL} \cup Seq(Byte)
    /\ pc = "make" => call.text # NULL /\ WellFormed(call.text)
    /\ pc \in {"fill", "data"} => call.text # NULL /\ Convertible(call.text)

TextInv == CallTyped /\ ObjectsTyped /\ CallChecked

\* Every byte string is a sequence of units.
LEMMA BytesAreUnits == Seq(Byte) \subseteq Seq(Unit)
<1>1. Byte \subseteq Unit
  BY SMT DEF Byte, Unit
<1> QED
  BY <1>1

LEMMA PhaseOf ==
    /\ pc = "idle" => Phase = "idle"
    /\ pc = "returned" => Phase = "answered"
    /\ (pc # "idle" /\ pc # "returned") => Phase = "asked"
BY DEF Phase

LEMMA PhaseThen ==
    /\ pc' = "idle" => Phase' = "idle"
    /\ pc' = "returned" => Phase' = "answered"
    /\ (pc' # "idle" /\ pc' # "returned") => Phase' = "asked"
BY DEF Phase

LEMMA InitTexts == ASSUME ClientInit PROVE TextInv /\ Bridge!Init
<1>1. TextInv
  <2>1. 0 \in Nat
    OBVIOUS
  <2>2. CallTyped
    BY <2>1 DEF ClientInit, NoCall, CallTyped, Status
  <2>3. ObjectsTyped /\ CallChecked
    BY DEF ClientInit, ObjectsTyped, CallChecked, CreateSteps
  <2> QED
    BY <2>2, <2>3 DEF TextInv
<1>2. Bridge!Init
  <2>1. Phase = "idle"
    BY PhaseOf DEF ClientInit
  <2>2. Request = Bridge!Nothing
    BY DEF ClientInit, NoCall, Request, Bridge!Nothing
  <2>3. Received = NULL
    BY DEF ClientInit, Received, Pending
  <2> QED
    BY <2>1, <2>2, <2>3 DEF Bridge!Init
<1> QED
  BY <1>1, <1>2

LEMMA CallTexts ==
    ASSUME TextInv, NEW fn \in {"create", "copy"}, NEW length \in Nat,
           NEW text \in {NULL} \cup Seq(Unit),
           fn = "create" => text \in {NULL} \cup Seq(Byte),
           Call(fn, text, length)
    PROVE  TextInv' /\ Bridge!Ask
<1>1. PICK place \in {NULL} \cup (Places \ mine) :
         call' = [fn |-> fn, text |-> text, length |-> length, place |-> place]
  BY DEF Call
<1>2. /\ pc = "idle" /\ pc' = fn
      /\ UNCHANGED << status, out, objects, mine >>
  BY DEF Call
<1>3. call'.fn = fn /\ call'.text = text
  BY <1>1
<1>4. CallTyped'
  <2>1. status' \in Status
    BY <1>2 DEF TextInv, CallTyped
  <2>2. call' \in [fn : {"none", "create", "copy"},
                   text : {NULL} \cup Seq(Unit), length : Nat,
                   place : {NULL} \cup Places]
    BY <1>1
  <2> QED
    BY <2>1, <2>2 DEF CallTyped
<1>5. ObjectsTyped' /\ CallChecked'
  BY <1>2, <1>3 DEF TextInv, ObjectsTyped, CallChecked, CreateSteps
<1>6. Bridge!Ask
  <2>1. Phase = "idle" /\ Phase' = "asked"
    BY <1>2, PhaseOf, PhaseThen
  <2>2. Request'.fn \in {"create", "copy"}
    BY <1>3 DEF Request
  <2>3. Received = NULL /\ Received' = NULL
    BY <1>2 DEF Received, Pending
  <2> QED
    BY <2>1, <2>2, <2>3 DEF Bridge!Ask
<1> QED
  BY <1>4, <1>5, <1>6 DEF TextInv

\* A step of a call that makes no object.
LEMMA QuietTexts ==
    ASSUME TextInv,
           pc \in CreateSteps \cup CopySteps,
           \/ pc' = "returned" /\ status' \in Status \ {OK}
           \/ pc' \in MakingSteps /\ UNCHANGED status,
           CallChecked',
           UNCHANGED << call, objects, mine >>
    PROVE  TextInv' /\ (Bridge!Refuse \/ UNCHANGED Bridge!promised)
<1>1. pc # "idle" /\ pc # "returned"
  BY DEF CreateSteps, CopySteps
<1>2. CallTyped' /\ ObjectsTyped'
  BY DEF TextInv, CallTyped, ObjectsTyped
<1>3. Received = NULL /\ Received' = NULL
  BY <1>1 DEF Received, Pending, MakingSteps
<1>4. Phase = "asked" /\ Request' = Request
  BY <1>1, PhaseOf DEF Request
<1>5. CASE pc' = "returned"
  <2>1. Phase' = "answered"
    BY <1>5, PhaseThen
  <2> QED
    BY <1>2, <1>3, <1>4, <2>1 DEF TextInv, Bridge!Refuse
<1>6. CASE pc' \in MakingSteps
  <2>1. Phase' = "asked"
    BY <1>6, PhaseThen DEF MakingSteps
  <2> QED
    BY <1>2, <1>3, <1>4, <2>1 DEF TextInv, Bridge!promised
<1> QED
  BY <1>5, <1>6

LEMMA DeliverTexts ==
    ASSUME BridgeInv, TextInv, NEW kind, NEW text \in Seq(Unit),
           Deliver(kind, text),
           \/ pc = "make" /\ SameText(text, call.text)
           \/ pc = "data" /\ SameText(call.text, text),
           UNCHANGED << call, mine >>
    PROVE  TextInv' /\ Bridge!Cross
<1>1. PICK a \in Addresses \ DOMAIN objects :
         /\ objects' = [b \in DOMAIN objects \cup {a} |->
                           IF b = a THEN [kind |-> kind, text |-> text]
                           ELSE objects[b]]
         /\ out' = [out EXCEPT ![call.place] = a]
  BY DEF Deliver
<1>2. pc' = "returned" /\ status' = OK
  BY DEF Deliver, Answer
<1>3. call.place \in Places /\ out \in [Places -> Addresses \cup {NULL}]
  BY DEF BridgeInv, Shape, CallInProgress, MakingSteps
<1>4. CallTyped' /\ CallChecked'
  BY <1>2 DEF TextInv, CallTyped, CallChecked, CreateSteps, Status
<1>5. ObjectsTyped'
  BY <1>1 DEF TextInv, ObjectsTyped
<1>6. out'[call'.place] = a /\ objects'[a].text = text
  BY <1>1, <1>3
<1>7. Received' = text
  BY <1>2, <1>6 DEF Received, Pending
<1>8. /\ Phase = "asked" /\ Phase' = "answered" /\ Request' = Request
      /\ Request.text = call.text /\ Request.fn = call.fn
  BY <1>2, PhaseOf, PhaseThen DEF Request
<1>9. /\ call.text # NULL
      /\ pc = "make" => call.fn = "create"
      /\ pc = "data" => call.fn = "copy"
  BY DEF TextInv, CallChecked, BridgeInv, CallInProgress, CreateSteps, CopySteps
<1>10. text # NULL
  BY NullAssumption
<1>11. Bridge!Cross
  BY <1>7, <1>8, <1>9, <1>10 DEF Bridge!Cross
<1> QED
  BY <1>4, <1>5, <1>11 DEF TextInv

LEMMA ReturnTexts ==
    ASSUME TextInv, ClientReturn
    PROVE  TextInv' /\ Bridge!Take
<1>1. /\ pc = "returned" /\ pc' = "idle" /\ call' = NoCall
      /\ UNCHANGED << status, out, objects >>
  BY DEF ClientReturn
<1>2. CallTyped'
  <2>1. 0 \in Nat /\ status' \in Status
    BY <1>1 DEF TextInv, CallTyped
  <2> QED
    BY <1>1, <2>1 DEF CallTyped, NoCall
<1>3. ObjectsTyped' /\ CallChecked'
  BY <1>1 DEF TextInv, ObjectsTyped, CallChecked, CreateSteps
<1>4. Phase = "answered" /\ Phase' = "idle"
  BY <1>1, PhaseOf, PhaseThen
<1>5. Request' = Bridge!Nothing /\ Received' = NULL
  BY <1>1 DEF Request, NoCall, Bridge!Nothing, Received, Pending
<1> QED
  BY <1>2, <1>3, <1>4, <1>5 DEF TextInv, Bridge!Take

LEMMA ReleaseTexts ==
    ASSUME TextInv, ClientRelease
    PROVE  TextInv' /\ UNCHANGED Bridge!promised
<1>1. PICK v \in mine :
         objects' = [a \in DOMAIN objects \ {out[v]} |-> objects[a]]
  BY DEF ClientRelease
<1>2. /\ pc = "idle" /\ pc' = "idle"
      /\ UNCHANGED << call, status, out >>
  BY DEF ClientRelease
<1>3. CallTyped' /\ CallChecked'
  BY <1>2 DEF TextInv, CallTyped, CallChecked, CreateSteps
<1>4. ObjectsTyped'
  BY <1>1 DEF TextInv, ObjectsTyped
<1>5. Received = NULL /\ Received' = NULL
  BY <1>2 DEF Received, Pending
<1>6. Phase' = Phase /\ Request' = Request
  BY <1>2, PhaseOf, PhaseThen DEF Request
<1> QED
  BY <1>3, <1>4, <1>5, <1>6 DEF TextInv, Bridge!promised

\* What the client does is what TextBridge's client does, or nothing to it.
LEMMA ClientTexts ==
    ASSUME BridgeInv, TextInv,
           CallCreate \/ CallCopy \/ ClientReturn \/ ClientRelease
    PROVE  TextInv' /\ [Bridge!Next]_(Bridge!promised)
<1>1. CASE CallCreate
  <2>1. CASE Call("create", NULL, 0)
    <3>1. 0 \in Nat
      OBVIOUS
    <3> QED
      BY <2>1, <3>1, CallTexts DEF Bridge!Next
  <2>2. ASSUME NEW s \in Inputs, NEW n \in {0, LONG_MAX},
               Call("create", s, IF n = 0 THEN Len(s) ELSE n + 1)
        PROVE  TextInv' /\ Bridge!Ask
    <3>1. s \in Seq(Byte) /\ s \in Seq(Unit)
      BY InputAssumption, BytesAreUnits
    <3>2. (IF n = 0 THEN Len(s) ELSE n + 1) \in Nat
      BY <3>1, InputAssumption, LenProperties
    <3> QED
      BY <2>2, <3>1, <3>2, CallTexts
  <2> QED
    BY <1>1, <2>1, <2>2 DEF CallCreate, Bridge!Next
<1>2. CASE CallCopy
  <2>1. PICK string \in Known \cup {NULL} : Call("copy", string, 0)
    BY <1>2 DEF CallCopy
  <2>2. string \in {NULL} \cup Seq(Unit)
    <3>1. CASE string \in Strings \cup {NULL}
      BY <3>1, StringAssumption
    <3>2. ASSUME NEW v \in mine, string = objects[out[v]].text
          PROVE  string \in Seq(Unit)
      <4>1. out[v] \in DOMAIN objects
        BY DEF BridgeInv, OneHolderPerObject
      <4> QED
        BY <3>2, <4>1 DEF TextInv, ObjectsTyped
    <3> QED
      BY <2>1, <3>1, <3>2 DEF Known
  <2>3. 0 \in Nat
    OBVIOUS
  <2> QED
    BY <2>1, <2>2, <2>3, CallTexts DEF Bridge!Next
<1>3. CASE ClientReturn
  BY <1>3, ReturnTexts DEF Bridge!Next
<1>4. CASE ClientRelease
  BY <1>4, ReleaseTexts
<1> QED
  BY <1>1, <1>2, <1>3, <1>4

LEMMA StutterTexts ==
    ASSUME TextInv, UNCHANGED client
    PROVE  TextInv' /\ UNCHANGED Bridge!promised
BY DEF client, TextInv, CallTyped, ObjectsTyped, CallChecked, Bridge!promised,
       Phase, Request, Received, Pending
==============================================================================
